---- MODULE Spec2Model ----
(***************************************************************************)
(* State-machine model of the interview orchestrator                       *)
(* (interview_orchestrator.py) together with the question store            *)
(* (questions_storage.py), the question generator (questions_agent.py),    *)
(* the evaluator and the report generator                                  *)
(* (evaluator_and_Report_Generator.py).                                    *)
(*                                                                         *)
(* Conventions.                                                            *)
(*  - Python floats are modelled as exact rationals [n, d] in lowest       *)
(*    terms with d > 0 (rounding of IEEE doubles is not modelled).         *)
(*  - An optional value (None or a dict) is a sequence of length 0 or 1.   *)
(*  - Wall-clock stamps (start_time, end_time, pause_time, resume_time,    *)
(*    created_date, timestamp) are not part of the state.                  *)
(*  - A question of a session is a reference to a question record: the    *)
(*    session holds its identifying attributes, the performance statistics *)
(*    of a stored question live in the store record only.                  *)
(***************************************************************************)
EXTENDS Integers, Sequences, FiniteSets, TLC

VARIABLES
    questions,          \* QuestionStorageAgent.questions: the in-memory store
    storage_file,       \* the persisted snapshot written by save_questions
    current_interview,  \* InterviewOrchestrator.current_interview (<<>> is None)
    interview_history,  \* InterviewOrchestrator.interview_history
    interviews_started, \* number of start_interview calls (drives interview ids)
    result              \* what the last call returned or raised

vars == <<questions, storage_file, current_interview, interview_history,
          interviews_started, result>>

(***************************************************************************)
(* Bounds of the model                                                     *)
(***************************************************************************)
\* start_interview calls in one run of the orchestrator
MaxInterviews == 2
\* answers evaluated in one run of the orchestrator (over all sessions)
MaxAnswers == 2
\* largest question_count passed to start_interview
MaxQuestionCount == 2

\* roles passed to start_interview; "general" is a role outside role_focus
Roles == {"finance", "general"}

(***************************************************************************)
(* Exact rational arithmetic standing in for Python floats                 *)
(***************************************************************************)
Abs(x) == IF x < 0 THEN -x ELSE x

Min(a, b) == IF a <= b THEN a ELSE b

Max(a, b) == IF a >= b THEN a ELSE b

RECURSIVE GCD(_, _)
GCD(a, b) == IF b = 0 THEN a ELSE GCD(b, a % b)

\* the rational n/d in lowest terms, d > 0
Rat(n, d) ==
    LET s == IF d < 0 THEN -1 ELSE 1
        g == GCD(Abs(n), Abs(d))
    IN  [n |-> (s * n) \div g, d |-> (s * d) \div g]

RInt(k) == [n |-> k, d |-> 1]

RAdd(a, b) == Rat(a.n * b.d + b.n * a.d, a.d * b.d)

RSub(a, b) == Rat(a.n * b.d - b.n * a.d, a.d * b.d)

RMul(a, b) == Rat(a.n * b.n, a.d * b.d)

RDiv(a, b) == Rat(a.n * b.d, a.d * b.n)

RLess(a, b) == a.n * b.d < b.n * a.d

RLeq(a, b) == a.n * b.d <= b.n * a.d

RAbs(a) == [n |-> Abs(a.n), d |-> a.d]

RMin(a, b) == IF RLeq(a, b) THEN a ELSE b

RMax(a, b) == IF RLeq(b, a) THEN a ELSE b

(***************************************************************************)
(* Sequence helpers (Python list idioms)                                   *)
(***************************************************************************)
\* seq[:k] for k >= 0
Take(seq, k) == SubSeq(seq, 1, Min(k, Len(seq)))

\* x in seq
InSeq(x, seq) == \E i \in 1..Len(seq) : seq[i] = x


(***************************************************************************)
(* Question store: questions_storage.py                                    *)
(***************************************************************************)
\* a seed record of _initialize_seed_questions
SeedQuestion(id, category, difficulty, target_roles) ==
    [id |-> id, question |-> <<"seed", id>>, category |-> category,
     difficulty |-> difficulty, target_roles |-> target_roles,
     generated |-> FALSE, created_date |-> 0,
     usage_count |-> 0, avg_score |-> RInt(0), success_rate |-> RInt(0),
     effectiveness_score |-> Rat(1, 2), performance_history |-> <<>>]

\* _initialize_seed_questions: the six canonical questions, in store order
seed_questions ==
    << SeedQuestion(1, "basic_formulas", "basic",
                    {"finance", "operations", "data_analytics"}),
       SeedQuestion(2, "data_manipulation", "intermediate",
                    {"data_analytics", "operations"}),
       SeedQuestion(3, "lookup_functions", "advanced",
                    {"finance", "data_analytics"}),
       SeedQuestion(4, "data_analysis", "intermediate",
                    {"finance", "operations", "data_analytics"}),
       SeedQuestion(5, "basic_formulas", "basic",
                    {"finance", "operations", "data_analytics"}),
       SeedQuestion(6, "advanced_formulas", "intermediate",
                    {"finance", "operations"}) >>

\* x.get('effectiveness_score', 0): a generated question not yet stored has none
Effectiveness(q) ==
    IF "effectiveness_score" \in DOMAIN q THEN q.effectiveness_score ELSE RInt(0)

\* list.sort(key=effectiveness, reverse=True): stable, descending
RECURSIVE SortByEffectiveness(_)
SortByEffectiveness(seq) ==
    IF seq = <<>> THEN <<>>
    ELSE LET rest == SortByEffectiveness(SubSeq(seq, 1, Len(seq) - 1))
             x == seq[Len(seq)]
             \* x goes behind every element that is at least as effective
             k == Cardinality({i \in 1..Len(rest) :
                                 RLeq(Effectiveness(x), Effectiveness(rest[i]))})
         IN  SubSeq(rest, 1, k) \o <<x>> \o SubSeq(rest, k + 1, Len(rest))

\* _calculate_effectiveness without the clamp of line 203
CalculateEffectiveness_NoFinalClamp(question) ==
    IF question.usage_count < 3 THEN Rat(1, 2)
    ELSE LET score_variance == RDiv(RAbs(RSub(question.avg_score, RInt(70))), RInt(30))
             usage_factor == RMin(Rat(question.usage_count, 50), RInt(1))
             success_correlation == question.success_rate
         IN  RAdd(RAdd(RMul(score_variance, Rat(4, 10)),
                       RMul(usage_factor, Rat(3, 10))),
                  RMul(success_correlation, Rat(3, 10)))

\* _calculate_effectiveness
CalculateEffectiveness(question) ==
    IF question.usage_count < 3 THEN Rat(1, 2)
    ELSE LET score_variance == RDiv(RAbs(RSub(question.avg_score, RInt(70))), RInt(30))
             usage_factor == RMin(Rat(question.usage_count, 50), RInt(1))
             success_correlation == question.success_rate
             effectiveness ==
                 RAdd(RAdd(RMul(score_variance, Rat(4, 10)),
                           RMul(usage_factor, Rat(3, 10))),
                      RMul(success_correlation, Rat(3, 10)))
         IN  RMin(RMax(effectiveness, RInt(0)), RInt(1))

\* lines 166-171: the success rate after count uses; "None" is the outcome
\* None, which leaves it as it is
SuccessRate(old_success, count, outcome) ==
    IF outcome = "hired"
    THEN RDiv(RAdd(RMul(old_success, RInt(count - 1)), RInt(1)), RInt(count))
    ELSE IF outcome = "not_hired"
    THEN RDiv(RMul(old_success, RInt(count - 1)), RInt(count))
    ELSE old_success

\* the loop body without the append of lines 174-178
UpdatedQuestion_KeepsHistory(question, score, outcome) ==
    LET count == question.usage_count + 1
        avg == RDiv(RAdd(RMul(question.avg_score, RInt(count - 1)), RInt(score)),
                    RInt(count))
        q1 == [question EXCEPT
                 !.usage_count = count,
                 !.avg_score = avg,
                 !.success_rate = SuccessRate(@, count, outcome)]
    IN  [q1 EXCEPT !.effectiveness_score = CalculateEffectiveness(q1)]

\* the loop body with the old average weighted by count instead of count - 1
UpdatedQuestion_WeighsOldByCount(question, score, outcome) ==
    LET count == question.usage_count + 1
        avg == RDiv(RAdd(RMul(question.avg_score, RInt(count)), RInt(score)),
                    RInt(count))
        q1 == [question EXCEPT
                 !.usage_count = count,
                 !.avg_score = avg,
                 !.success_rate = SuccessRate(@, count, outcome),
                 !.performance_history =
                     Append(@, [score |-> score, outcome |-> outcome])]
    IN  [q1 EXCEPT !.effectiveness_score = CalculateEffectiveness(q1)]

\* the body of the loop of update_question_performance for the matching
\* record
UpdatedQuestion(question, score, outcome) ==
    LET count == question.usage_count + 1
        avg == RDiv(RAdd(RMul(question.avg_score, RInt(count - 1)), RInt(score)),
                    RInt(count))
        q1 == [question EXCEPT
                 !.usage_count = count,
                 !.avg_score = avg,
                 !.success_rate = SuccessRate(@, count, outcome),
                 !.performance_history =
                     Append(@, [score |-> score, outcome |-> outcome])]
    IN  [q1 EXCEPT !.effectiveness_score = CalculateEffectiveness(q1)]

\* update_question_performance without the break of line 181
UpdateQuestionPerformance_NoBreak(store, question_id, score, outcome) ==
    [i \in 1..Len(store) |->
        IF store[i].id = question_id
        THEN UpdatedQuestion(store[i], score, outcome)
        ELSE store[i]]

\* update_question_performance taking the first record when none matches
UpdateQuestionPerformance_FirstWhenUnknown(store, question_id, score, outcome) ==
    LET hits == {i \in 1..Len(store) : store[i].id = question_id}
        first == IF hits = {} THEN 1 ELSE CHOOSE i \in hits : \A j \in hits : i <= j
    IN  IF store = <<>> THEN store
        ELSE [store EXCEPT ![first] = UpdatedQuestion(store[first], score, outcome)]

\* update_question_performance: the first record with this id (break), or
\* none; outcome is "None" on the calls the orchestrator makes
UpdateQuestionPerformance(store, question_id, score, outcome) ==
    LET hits == {i \in 1..Len(store) : store[i].id = question_id}
    IN  IF hits = {} THEN store
        ELSE LET first == CHOOSE i \in hits : \A j \in hits : i <= j
             IN  [store EXCEPT ![first] =
                     UpdatedQuestion(store[first], score, outcome)]

\* _generate_question_id: max(existing_ids, default=0) + 1
GenerateQuestionId(store) ==
    LET existing_ids == {store[i].id : i \in 1..Len(store)}
    IN  IF existing_ids = {} THEN 1
        ELSE (CHOOSE m \in existing_ids : \A x \in existing_ids : x <= m) + 1

\* datetime.now().isoformat() of line 144, as a logical time: later than
\* the created_date of every record the store holds (the seed records are
\* created at time 0)
CreatedDate(store) ==
    LET dates == {store[i].created_date : i \in 1..Len(store)} \cup {0}
    IN  (CHOOSE m \in dates : \A x \in dates : x <= m) + 1

\* store_question: a question without an id gets one; the statistics and
\* created_date are (re)initialised and the entry is appended, whatever the
\* store holds
StoreQuestion(store, question) ==
    Append(store,
           [id |-> IF "id" \in DOMAIN question THEN question.id
                   ELSE GenerateQuestionId(store),
            question |-> question.question,
            category |-> question.category, difficulty |-> question.difficulty,
            target_roles |-> question.target_roles, generated |-> question.generated,
            created_date |-> CreatedDate(store),
            usage_count |-> 0, avg_score |-> RInt(0), success_rate |-> RInt(0),
            effectiveness_score |-> Rat(1, 2), performance_history |-> <<>>])

\* delete_question: the first record with this id is removed
DeleteQuestion(store, question_id) ==
    LET hits == {i \in 1..Len(store) : store[i].id = question_id}
    IN  IF hits = {} THEN store
        ELSE LET first == CHOOSE i \in hits : \A j \in hits : i <= j
             IN  SubSeq(store, 1, first - 1) \o SubSeq(store, first + 1, Len(store))

\* What json.dump writes for a value and json.load reads back: an int as an
\* integer literal, a float by its shortest repr (read back to the same
\* float), a str as a string, a bool as true/false, None as null, a list as
\* an array, a dict as an object.
JsonInt(value) == [json |-> "int", v |-> value]

JsonFloat(value) == [json |-> "float", v |-> value]

JsonString(value) == [json |-> "string", v |-> value]

JsonBool(value) == [json |-> "bool", v |-> value]

JsonNull == [json |-> "null"]

JsonArray(values) == [json |-> "array", v |-> values]

\* an outcome: None or a string
JsonOutcome(outcome) ==
    IF outcome = "None" THEN JsonNull ELSE JsonString(outcome)

\* json.dump of one question record
JsonQuestion(q) ==
    [id |-> JsonInt(q.id),
     question |-> JsonString(q.question),
     category |-> JsonString(q.category),
     difficulty |-> JsonString(q.difficulty),
     target_roles |-> JsonArray({JsonString(role) : role \in q.target_roles}),
     generated |-> JsonBool(q.generated),
     created_date |-> JsonString(q.created_date),
     usage_count |-> JsonInt(q.usage_count),
     avg_score |-> JsonFloat(q.avg_score),
     success_rate |-> JsonFloat(q.success_rate),
     effectiveness_score |-> JsonFloat(q.effectiveness_score),
     performance_history |->
         JsonArray([i \in 1..Len(q.performance_history) |->
                       [score |-> JsonInt(q.performance_history[i].score),
                        outcome |-> JsonOutcome(q.performance_history[i].outcome)]])]

\* json.load of one question record
LoadedQuestion(o) ==
    [id |-> o.id.v,
     question |-> o.question.v,
     category |-> o.category.v,
     difficulty |-> o.difficulty.v,
     target_roles |-> {role.v : role \in o.target_roles.v},
     generated |-> o.generated.v,
     created_date |-> o.created_date.v,
     usage_count |-> o.usage_count.v,
     avg_score |-> o.avg_score.v,
     success_rate |-> o.success_rate.v,
     effectiveness_score |-> o.effectiveness_score.v,
     performance_history |->
         [i \in 1..Len(o.performance_history.v) |->
             [score |-> o.performance_history.v[i].score.v,
              outcome |-> IF o.performance_history.v[i].outcome.json = "null"
                          THEN "None"
                          ELSE o.performance_history.v[i].outcome.v]]]

\* save_questions writing the records without their histories
SaveQuestions_DropsHistory(store) ==
    [questions |->
         JsonArray([i \in 1..Len(store) |->
                       JsonQuestion([store[i] EXCEPT !.performance_history = <<>>])])]

\* save_questions: the document the file holds after a write that succeeds
SaveQuestions(store) ==
    [questions |-> JsonArray([i \in 1..Len(store) |-> JsonQuestion(store[i])])]

\* load_questions on an existing file: data.get('questions', [])
LoadQuestions(file) ==
    IF "questions" \in DOMAIN file
    THEN [i \in 1..Len(file.questions.v) |-> LoadedQuestion(file.questions.v[i])]
    ELSE <<>>

\* the truth value Python gives an optional string: None (the empty
\* sequence) and "" are false
Truthy(argument) ==
    /\ argument # <<>>
    /\ argument[1] # ""

\* the truth value Python gives an optional int: None and 0 are false
TruthyCount(count) ==
    /\ count # <<>>
    /\ count[1] # 0

\* get_questions_by_criteria(category, difficulty, role, min_effectiveness,
\* count): category, difficulty, role and count are <<>> for None or <<v>>
GetQuestionsByCriteriaOf(store, category, difficulty, role, min_effectiveness, count) ==
    LET HasCategory(q) == q.category = category[1]
        HasDifficulty(q) == q.difficulty = difficulty[1]
        HasRole(q) == role[1] \in q.target_roles
        Effective(q) == RLeq(min_effectiveness, Effectiveness(q))
        by_category == IF Truthy(category) THEN SelectSeq(store, HasCategory)
                       ELSE store
        by_difficulty == IF Truthy(difficulty)
                         THEN SelectSeq(by_category, HasDifficulty)
                         ELSE by_category
        by_role == IF Truthy(role) THEN SelectSeq(by_difficulty, HasRole)
                   ELSE by_difficulty
        filtered_questions == IF RLess(RInt(0), min_effectiveness)
                              THEN SelectSeq(by_role, Effective)
                              ELSE by_role
        sorted == SortByEffectiveness(filtered_questions)
    IN  IF TruthyCount(count) THEN Take(sorted, count[1]) ELSE sorted

\* get_questions_by_criteria(role=role, count=count), as start_interview calls it
GetQuestionsByCriteria(store, role, count) ==
    LET HasRole(q) == role \in q.target_roles
        filtered == IF role # "" THEN SelectSeq(store, HasRole) ELSE store
        sorted == SortByEffectiveness(filtered)
    IN  IF count # 0 THEN Take(sorted, count) ELSE sorted

\* get_best_questions filling up from all role questions, the selected ones
\* included
GetBestQuestions_FillsWithSelected(store, role, count) ==
    LET HasRole(q) == role \in q.target_roles
        role_questions == SelectSeq(store, HasRole)
        TopTwo(difficulty) ==
            LET IsDifficulty(q) == q.difficulty = difficulty
            IN  Take(SortByEffectiveness(SelectSeq(role_questions, IsDifficulty)), 2)
        selected == TopTwo("basic") \o TopTwo("intermediate") \o TopTwo("advanced")
        remaining == SortByEffectiveness(role_questions)
        filled == IF Len(selected) < count
                  THEN selected \o Take(remaining, count - Len(selected))
                  ELSE selected
    IN  Take(filled, count)

\* get_best_questions
GetBestQuestions(store, role, count) ==
    LET HasRole(q) == role \in q.target_roles
        role_questions == SelectSeq(store, HasRole)
        TopTwo(difficulty) ==
            LET IsDifficulty(q) == q.difficulty = difficulty
            IN  Take(SortByEffectiveness(SelectSeq(role_questions, IsDifficulty)), 2)
        selected == TopTwo("basic") \o TopTwo("intermediate") \o TopTwo("advanced")
        NotSelected(q) == ~InSeq(q, selected)
        remaining == SortByEffectiveness(SelectSeq(role_questions, NotSelected))
        filled == IF Len(selected) < count
                  THEN selected \o Take(remaining, count - Len(selected))
                  ELSE selected
    IN  Take(filled, count)

\* the sum of usage_count over the store
RECURSIVE TotalUsage(_)
TotalUsage(store) ==
    IF store = <<>> THEN 0 ELSE Head(store).usage_count + TotalUsage(Tail(store))


(***************************************************************************)
(* Question catalog and generator: questions_agent.py                      *)
(* A rendered question text is the tuple of its template's difficulty and  *)
(* the indices of the variations random.choice picked.                     *)
(***************************************************************************)
\* QuestionBankAgent.role_focus.get(role, ["basic_formulas"])
RoleFocus(role) ==
    CASE role = "finance" -> {"basic_formulas", "lookup_functions", "scenario_based"}
      [] role = "operations" -> {"data_analysis", "data_manipulation", "scenario_based"}
      [] role = "data_analytics" -> {"advanced_formulas", "data_analysis", "lookup_functions"}
      [] OTHER -> {"basic_formulas"}

\* QuestionBankAgent.base_questions with the texts _fill_template can render
base_questions ==
    { [category |-> "basic_formulas", difficulty |-> "basic",
       texts |-> {<<"basic", a>> : a \in 1..3}],
      [category |-> "data_analysis", difficulty |-> "intermediate",
       texts |-> {<<"intermediate", t>> : t \in 1..3}],
      [category |-> "advanced_formulas", difficulty |-> "advanced",
       texts |-> {<<"advanced", c1, c2>> : c1 \in 1..3, c2 \in 1..3}] }

\* hash(question_text) % 10000: one value per text for the life of the process
HashId(text) ==
    CASE text[1] = "basic" -> 1000 + text[2]
      [] text[1] = "intermediate" -> 2000 + text[2]
      [] OTHER -> 3000 + 10 * text[2] + text[3]

\* _determine_roles_from_category
DetermineRolesFromCategory(category) ==
    {role \in {"finance", "operations", "data_analytics"} : category \in RoleFocus(role)}

\* _use_template_question: the questions it can return; {} stands for None
UseTemplateQuestion(categories, difficulty) ==
    LET suitable_templates ==
            {t \in base_questions : t.category \in categories /\ t.difficulty = difficulty}
    IN  UNION { { [id |-> HashId(text), question |-> text, category |-> t.category,
                   difficulty |-> difficulty, generated |-> TRUE,
                   target_roles |-> DetermineRolesFromCategory(t.category)]
                  : text \in t.texts }
                : t \in suitable_templates }

\* the questions num_questions calls of _use_template_question can append
TemplateSlots(categories, difficulty, num_questions) ==
    LET drawn == UseTemplateQuestion(categories, difficulty)
    IN  IF drawn = {} THEN {<<>>}
        ELSE {[i \in 1..num_questions |-> f[i]] : f \in [1..num_questions -> drawn]}

\* difficulty_distribution with the extra slot of a remainder of 1 given to
\* advanced
DifficultyDistribution_ExtraToAdvanced(count) ==
    [basic |-> count \div 3 + (IF count % 3 > 1 THEN 1 ELSE 0),
     intermediate |-> count \div 3,
     advanced |-> count \div 3 + (IF count % 3 > 0 THEN 1 ELSE 0)]

\* difficulty_distribution of generate_interview_questions
DifficultyDistribution(count) ==
    [basic |-> count \div 3 + (IF count % 3 > 0 THEN 1 ELSE 0),
     intermediate |-> count \div 3 + (IF count % 3 > 1 THEN 1 ELSE 0),
     advanced |-> count \div 3]

\* generate_interview_questions: every list it can return
GenerateInterviewQuestions(role, count) ==
    LET categories == RoleFocus(role)
        basic == DifficultyDistribution(count).basic
        intermediate == DifficultyDistribution(count).intermediate
        advanced == DifficultyDistribution(count).advanced
    IN  { b \o i \o a : b \in TemplateSlots(categories, "basic", basic),
                        i \in TemplateSlots(categories, "intermediate", intermediate),
                        a \in TemplateSlots(categories, "advanced", advanced) }

(***************************************************************************)
(* Question selection: interview_orchestrator.py                           *)
(***************************************************************************)
\* _balance_question_selection
BalanceQuestionSelection(pool, target_count) ==
    IF Len(pool) <= target_count THEN pool
    ELSE LET Group(difficulty) ==
                 LET IsDifficulty(q) == q.difficulty = difficulty
                 IN  SortByEffectiveness(SelectSeq(pool, IsDifficulty))
             remaining == target_count % 3
             base == target_count \div 3
             target_basic == base + (IF remaining > 1 THEN 1 ELSE 0)
             target_intermediate == base + (IF remaining > 0 THEN 1 ELSE 0)
             target_advanced == base
             selected == Take(Group("basic"), target_basic)
                         \o Take(Group("intermediate"), target_intermediate)
                         \o Take(Group("advanced"), target_advanced)
             NotSelected(q) == ~InSeq(q, selected)
             rest == SortByEffectiveness(SelectSeq(pool, NotSelected))
             filled == IF Len(selected) < target_count
                       THEN selected \o Take(rest, target_count - Len(selected))
                       ELSE selected
         IN  Take(filled, target_count)

\* _select_interview_questions: every list it can return
SelectInterviewQuestions(store, role, count) ==
    LET stored_questions == GetBestQuestions(store, role, count)
    IN  IF Len(stored_questions) < count
        THEN { BalanceQuestionSelection(stored_questions \o generated_questions, count)
               : generated_questions \in
                   GenerateInterviewQuestions(role, count - Len(stored_questions)) }
        ELSE { BalanceQuestionSelection(Take(stored_questions, count), count) }

\* lines 32-42 of start_interview: every question list the session can get
InterviewQuestions(store, role, question_count) ==
    UNION { IF Len(selected) < question_count
            THEN LET all_questions == GetQuestionsByCriteria(store, role, question_count)
                 IN  IF Len(all_questions) < question_count
                     THEN { BalanceQuestionSelection(all_questions \o generated_questions,
                                                     question_count)
                            : generated_questions \in
                                GenerateInterviewQuestions(
                                    role, question_count - Len(all_questions)) }
                     ELSE { BalanceQuestionSelection(all_questions, question_count) }
            ELSE { selected }
            : selected \in SelectInterviewQuestions(store, role, question_count) }


(***************************************************************************)
(* Evaluator: evaluator_and_Report_Generator.py                            *)
(* A response is described by what the scorers read of it: its number of   *)
(* words, whether a vocabulary function name occurs in it and whether it   *)
(* contains "=" or "()".  An oracle reply is the call raising, a reply     *)
(* holding a JSON object, or a reply holding no JSON object; of the last   *)
(* only the numbers of its first line with "score" or "/100" matter.       *)
(***************************************************************************)
\* _fallback_evaluation
FallbackEvaluation(response) ==
    LET length_bonus == IF response.words > 30 THEN 25
                        ELSE IF response.words > 15 THEN 15
                        ELSE IF response.words > 5 THEN 10
                        ELSE 0
        score == 40 + length_bonus
                    + (IF response.has_function THEN 20 ELSE 0)
                    + (IF response.has_formula THEN 15 ELSE 0)
    IN  [score |-> Min(score, 100),
         technical_accuracy |-> Min(score, 100),
         depth |-> Max(score - 10, 0),
         practical_application |-> Max(score - 5, 0),
         evaluation_source |-> "Fallback"]

\* _parse_text_response
ParseTextResponse(reply) ==
    LET score == IF reply.numbers # <<>> THEN Min(reply.numbers[1], 100) ELSE 70
    IN  [score |-> score,
         technical_accuracy |-> score,
         depth |-> Max(score - 10, 0),
         practical_application |-> Max(score - 5, 0),
         evaluation_source |-> "AI_Text"]

\* evaluation_data.get(field, 50) of lines 94-97: a reply of kind "json" is
\* a record that holds the fields the object of the reply holds
GetOr50(reply, field) ==
    IF field \in DOMAIN reply THEN reply[field] ELSE 50

\* _parse_ai_evaluation tagging the text scan as a structured result
ParseAIEvaluation_TagsTextAsAI(reply) ==
    IF reply.kind = "json"
    THEN [score |-> GetOr50(reply, "score"),
          technical_accuracy |-> GetOr50(reply, "technical_accuracy"),
          depth |-> GetOr50(reply, "depth"),
          practical_application |-> GetOr50(reply, "practical_application"),
          evaluation_source |-> "AI"]
    ELSE [ParseTextResponse(reply) EXCEPT !.evaluation_source = "AI"]

\* _parse_ai_evaluation: kind "json" is a reply in which the pattern of line
\* 90 finds an object that json.loads accepts; kind "broken_json" is one in
\* which it finds a match that json.loads rejects (JSONDecodeError, line
\* 107); kind "text" is one without a match (line 104)
ParseAIEvaluation(reply) ==
    IF reply.kind = "json"
    THEN [score |-> GetOr50(reply, "score"),
          technical_accuracy |-> GetOr50(reply, "technical_accuracy"),
          depth |-> GetOr50(reply, "depth"),
          practical_application |-> GetOr50(reply, "practical_application"),
          evaluation_source |-> "AI"]
    ELSE ParseTextResponse(reply)

\* review_answer
ReviewAnswer(response, reply) ==
    IF reply.kind = "raise" THEN FallbackEvaluation(response)
    ELSE ParseAIEvaluation(reply)

\* evaluate_comprehensive
EvaluateComprehensive(question, response, reply) ==
    LET ai_eval == ReviewAnswer(response, reply)
    IN  [score |-> ai_eval.score,
         technical_accuracy |-> ai_eval.technical_accuracy,
         depth |-> ai_eval.depth,
         practical_application |-> ai_eval.practical_application,
         evaluation_source |-> ai_eval.evaluation_source,
         response_length |->
             [words |-> response.words,
              quality |-> IF response.words > 20 THEN "detailed"
                          ELSE IF response.words > 5 THEN "brief" ELSE "minimal"],
         question_id |-> question.id]

(***************************************************************************)
(* Report generator: evaluator_and_Report_Generator.py                     *)
(***************************************************************************)
RECURSIVE SumScores(_)
SumScores(evaluations) ==
    IF evaluations = <<>> THEN 0
    ELSE Head(evaluations).score + SumScores(Tail(evaluations))

\* the number of evaluations scoring below the limit
CountBelow(evaluations, limit) ==
    Cardinality({i \in 1..Len(evaluations) : evaluations[i].score < limit})

\* the default of line 254 lowered to 50
MinimumScore_DefaultIs50(role) ==
    CASE role = "finance" -> 75
      [] role = "operations" -> 70
      [] role = "data_analytics" -> 80
      [] OTHER -> 50

\* hiring_thresholds.get(role, {}).get("minimum_score", 70)
MinimumScore(role) ==
    CASE role = "finance" -> 75
      [] role = "operations" -> 70
      [] role = "data_analytics" -> 80
      [] OTHER -> 70

\* _make_hiring_decision with "avg_score > threshold" at lines 258 and 269
MakeHiringDecision_StrictThreshold(avg_score, role, evaluations) ==
    LET threshold == MinimumScore(role)
        ladder == IF RLeq(RInt(85), avg_score) THEN <<"STRONG HIRE", "High">>
                  ELSE IF RLess(RInt(threshold), avg_score)
                       THEN <<"CONDITIONAL HIRE", "Medium">>
                  ELSE IF RLeq(RInt(50), avg_score)
                       THEN <<"NO HIRE - TRAINING REQUIRED", "High">>
                  ELSE <<"REJECT", "High">>
        critical_failures == CountBelow(evaluations, 30)
        final == IF critical_failures > Len(evaluations) \div 2
                 THEN <<"REJECT", "High">> ELSE ladder
    IN  [decision |-> final[1], confidence |-> final[2],
         meets_threshold |-> RLess(RInt(threshold), avg_score)]

\* _make_hiring_decision with ">=" in the test of line 266
MakeHiringDecision_OverrideAtHalf(avg_score, role, evaluations) ==
    LET threshold == MinimumScore(role)
        ladder == IF RLeq(RInt(85), avg_score) THEN <<"STRONG HIRE", "High">>
                  ELSE IF RLeq(RInt(threshold), avg_score)
                       THEN <<"CONDITIONAL HIRE", "Medium">>
                  ELSE IF RLeq(RInt(50), avg_score)
                       THEN <<"NO HIRE - TRAINING REQUIRED", "High">>
                  ELSE <<"REJECT", "High">>
        critical_failures == CountBelow(evaluations, 30)
        final == IF critical_failures >= Len(evaluations) \div 2
                 THEN <<"REJECT", "High">> ELSE ladder
    IN  [decision |-> final[1], confidence |-> final[2],
         meets_threshold |-> RLeq(RInt(threshold), avg_score)]

\* _make_hiring_decision
MakeHiringDecision(avg_score, role, evaluations) ==
    LET threshold == MinimumScore(role)
        ladder == IF RLeq(RInt(85), avg_score) THEN <<"STRONG HIRE", "High">>
                  ELSE IF RLeq(RInt(threshold), avg_score)
                       THEN <<"CONDITIONAL HIRE", "Medium">>
                  ELSE IF RLeq(RInt(50), avg_score)
                       THEN <<"NO HIRE - TRAINING REQUIRED", "High">>
                  ELSE <<"REJECT", "High">>
        critical_failures == CountBelow(evaluations, 30)
        final == IF critical_failures > Len(evaluations) \div 2
                 THEN <<"REJECT", "High">> ELSE ladder
    IN  [decision |-> final[1], confidence |-> final[2],
         meets_threshold |-> RLeq(RInt(threshold), avg_score)]

\* _assess_critical_skills: the tier every skill gets; line 273 divides by
\* len(evaluations), so with no evaluations the call raises
\* ZeroDivisionError, which the result names
AssessCriticalSkills(evaluations) ==
    IF Len(evaluations) = 0 THEN "ZeroDivisionError"
    ELSE LET total_score == Rat(SumScores(evaluations), Len(evaluations))
         IN  IF RLeq(RInt(80), total_score) THEN "STRONG"
             ELSE IF RLeq(RInt(60), total_score) THEN "ADEQUATE"
             ELSE "WEAK"

\* _identify_critical_gaps with ">= 2" in the test of line 291
IdentifyCriticalGaps_PatternAtTwo(evaluations, role) ==
    LET avg_score == Rat(SumScores(evaluations), Len(evaluations))
        gaps == (IF RLess(avg_score, RInt(30)) THEN <<"CRITICAL">> ELSE <<>>)
                \o (IF RLess(avg_score, RInt(50)) THEN <<"MAJOR">> ELSE <<>>)
                \o (IF CountBelow(evaluations, 40) >= 2 THEN <<"PATTERN">> ELSE <<>>)
                \o (IF role = "finance" /\ RLess(avg_score, RInt(70))
                    THEN <<"FINANCE CRITICAL">>
                    ELSE IF role = "data_analytics" /\ RLess(avg_score, RInt(75))
                         THEN <<"ANALYTICS CRITICAL">>
                    ELSE <<>>)
    IN  Take(gaps, 3)

\* _identify_critical_gaps, for a non-empty list
IdentifyCriticalGaps(evaluations, role) ==
    LET avg_score == Rat(SumScores(evaluations), Len(evaluations))
        gaps == (IF RLess(avg_score, RInt(30)) THEN <<"CRITICAL">> ELSE <<>>)
                \o (IF RLess(avg_score, RInt(50)) THEN <<"MAJOR">> ELSE <<>>)
                \o (IF CountBelow(evaluations, 40) > 2 THEN <<"PATTERN">> ELSE <<>>)
                \o (IF role = "finance" /\ RLess(avg_score, RInt(70))
                    THEN <<"FINANCE CRITICAL">>
                    ELSE IF role = "data_analytics" /\ RLess(avg_score, RInt(75))
                         THEN <<"ANALYTICS CRITICAL">>
                    ELSE <<>>)
    IN  Take(gaps, 3)

\* round(x, 1) of a non-negative x: to the nearest tenth, ties to even
Round1(x) ==
    LET scaled == 10 * x.n
        floor == scaled \div x.d
        twice_rest == 2 * (scaled % x.d)
        tenths == IF twice_rest > x.d THEN floor + 1
                  ELSE IF twice_rest < x.d THEN floor
                  ELSE IF floor % 2 = 0 THEN floor ELSE floor + 1
    IN  Rat(tenths, 10)

\* generate_final_report; the branch for no evaluations (lines 201-226)
\* calls _assess_critical_skills at line 207, and the exception of that call
\* ends generate_final_report
GenerateFinalReport(evaluations, role) ==
    IF evaluations = <<>>
    THEN LET hiring_decision == MakeHiringDecision(RInt(0), role, evaluations)
             skills_assessment == AssessCriticalSkills(evaluations)
         IN  IF skills_assessment = "ZeroDivisionError"
             THEN [raised |-> "ZeroDivisionError"]
             ELSE [overall_score |-> RInt(0),
                   hiring_decision |-> hiring_decision,
                   skills_breakdown |-> skills_assessment,
                   critical_gaps |-> <<"CRITICAL: No answers provided">>]
    ELSE LET avg_score == Rat(SumScores(evaluations), Len(evaluations))
         IN  [overall_score |-> Round1(avg_score),
              hiring_decision |-> MakeHiringDecision(avg_score, role, evaluations),
              skills_breakdown |-> AssessCriticalSkills(evaluations),
              critical_gaps |-> IdentifyCriticalGaps(evaluations, role)]


(***************************************************************************)
(* Interview orchestrator: interview_orchestrator.py                       *)
(* result.status is the 'status' of the dict the call returned, "error"    *)
(* for a dict that only carries 'error', and "raised" when the call ended  *)
(* with an exception.                                                      *)
(***************************************************************************)
\* question_count arguments of start_interview
QuestionCounts == 0..MaxQuestionCount

\* responses a candidate submits
Responses ==
    { [text |-> "short", words |-> 3, has_function |-> FALSE, has_formula |-> FALSE],
      [text |-> "long", words |-> 31, has_function |-> TRUE, has_formula |-> TRUE] }

\* replies of the scoring oracle
OracleReplies ==
    { [kind |-> "raise"],
      [kind |-> "json", score |-> 90, technical_accuracy |-> 90, depth |-> 80,
       practical_application |-> 85] }

\* the question object a session holds: the record without the statistics
\* that only the store's own copy carries
QuestionRef(q) ==
    [id |-> q.id, question |-> q.question, category |-> q.category,
     difficulty |-> q.difficulty, target_roles |-> q.target_roles,
     generated |-> q.generated]

\* lines 58-61 of start_interview: store_question for every generated question
RECURSIVE StoreGenerated(_, _)
StoreGenerated(store, session_questions) ==
    IF session_questions = <<>> THEN store
    ELSE StoreGenerated(
             IF Head(session_questions).generated
             THEN StoreQuestion(store, Head(session_questions))
             ELSE store,
             Tail(session_questions))

\* get_current_question of a session: <<>> is None
GetCurrentQuestion(interview) ==
    IF interview.current_question_index < Len(interview.questions)
    THEN <<interview.questions[interview.current_question_index + 1]>>
    ELSE <<>>

Init ==
    /\ questions = seed_questions
    /\ storage_file = SaveQuestions(seed_questions)
    /\ current_interview = <<>>
    /\ interview_history = <<>>
    /\ interviews_started = 0
    /\ result = [op |-> "__init__", status |-> "none"]

\* start_interview(role, candidate_info, question_count)
StartInterview(role, question_count) ==
    /\ interviews_started < MaxInterviews
    /\ \E selected \in InterviewQuestions(questions, role, question_count) :
         LET session_questions == [i \in 1..Len(selected) |-> QuestionRef(selected[i])]
             stored == StoreGenerated(questions, session_questions)
         IN  /\ current_interview' =
                   << [interview_id |-> interviews_started + 1,
                       role |-> role,
                       questions |-> session_questions,
                       responses |-> <<>>,
                       evaluations |-> <<>>,
                       current_question_index |-> 0,
                       status |-> "in_progress",
                       has_asked_follow_up |-> FALSE] >>
             /\ questions' = stored
             /\ storage_file' = IF stored # questions THEN SaveQuestions(stored)
                                ELSE storage_file
             /\ result' = [op |-> "start_interview", status |-> "started",
                           role |-> role, question_count |-> question_count,
                           interview_id |-> interviews_started + 1,
                           total_questions |-> Len(session_questions),
                           first_question |-> Take(session_questions, 1)]
    /\ interviews_started' = interviews_started + 1
    /\ UNCHANGED interview_history

\* line 186 without the test of has_asked_follow_up
ShouldAskFollowUp_IgnoresFlag(score, has_asked_follow_up) ==
    score < 60

\* line 186 of _determine_next_action: whether a follow-up is asked
ShouldAskFollowUp(score, has_asked_follow_up) ==
    score < 60 /\ ~has_asked_follow_up

\* lines 200-201 also taking the answered question out of the sequence
AdvancedInterview_DropsAnswered(interview) ==
    [interview EXCEPT !.questions = Tail(@),
                      !.current_question_index = @ + 1,
                      !.has_asked_follow_up = FALSE]

\* lines 200-201 also setting the status back to in_progress
AdvancedInterview_Resumes(interview) ==
    [interview EXCEPT !.current_question_index = @ + 1,
                      !.has_asked_follow_up = FALSE,
                      !.status = "in_progress"]

\* lines 200-201 with the index moved by two
AdvancedInterview_SkipsOne(interview) ==
    [interview EXCEPT !.current_question_index = @ + 2,
                      !.has_asked_follow_up = FALSE]

\* lines 200-201 of _determine_next_action: move to the next question
AdvancedInterview(interview) ==
    [interview EXCEPT !.current_question_index = @ + 1,
                      !.has_asked_follow_up = FALSE]

\* line 203 with > for >=
InterviewFinished_OffByOne(interview) ==
    interview.current_question_index > Len(interview.questions)

\* line 203 of _determine_next_action: no question is left
InterviewFinished(interview) ==
    interview.current_question_index >= Len(interview.questions)

\* line 224 left out: the status is not set
CompletedInterview_KeepsStatus(interview) ==
    interview

\* line 224 of _complete_interview: the session as it is finalized
CompletedInterview(interview) ==
    [interview EXCEPT !.status = "completed"]

\* line 234 putting the session in front of the history
HistoryWith_Prepends(history, interview) ==
    <<interview>> \o history

\* line 234 assigning the history instead of appending to it
HistoryWith_Overwrites(history, interview) ==
    <<interview>>

\* line 234 of _complete_interview: the history after the session is stored
HistoryWith(history, interview) ==
    Append(history, interview)

\* the early returns also dropping the active session
SubmitError_DropsSession(message) ==
    /\ result' = [op |-> "submit_answer", status |-> "error", error |-> message]
    /\ current_interview' = <<>>
    /\ UNCHANGED <<questions, storage_file, interview_history, interviews_started>>

\* the early returns of submit_answer (lines 152-157)
SubmitError(message) ==
    /\ result' = [op |-> "submit_answer", status |-> "error", error |-> message]
    /\ UNCHANGED <<questions, storage_file, current_interview,
                   interview_history, interviews_started>>

\* lines 163-169 without the append of the response
RecordedInterview_DropsResponse(interview, current_question, response, evaluation) ==
    [interview EXCEPT !.evaluations = Append(@, evaluation)]

\* lines 163-169 of submit_answer: the response and the evaluation are
\* appended to the session
RecordedInterview(interview, current_question, response, evaluation) ==
    [interview EXCEPT
       !.responses = Append(@, [question_id |-> current_question.id,
                                response |-> response.text]),
       !.evaluations = Append(@, evaluation)]

\* submit_answer(response), the oracle answering with reply; includes
\* _determine_next_action and _complete_interview. The store has taken
\* fewer than max_answers answers.
SubmitAnswerUpTo(response, reply, max_answers) ==
    IF current_interview = <<>>
    THEN SubmitError("No active interview session")
    ELSE IF GetCurrentQuestion(current_interview[1]) = <<>>
    THEN SubmitError("No current question available")
    ELSE LET interview == current_interview[1]
             current_question == GetCurrentQuestion(interview)[1]
             evaluation == EvaluateComprehensive(current_question, response, reply)
             recorded == RecordedInterview(interview, current_question, response,
                                           evaluation)
             updated == UpdateQuestionPerformance(questions, current_question.id,
                                                  evaluation.score, "None")
         IN  /\ TotalUsage(questions) < max_answers
             /\ questions' = updated
             /\ storage_file' = SaveQuestions(updated)
             /\ UNCHANGED interviews_started
             /\ IF ShouldAskFollowUp(evaluation.score, recorded.has_asked_follow_up)
                THEN \* QuestionGeneratorAgent has no generate_follow_up_question:
                     \* the attribute lookup of line 189 raises, after line 188
                     \* has set the flag
                     /\ current_interview' =
                            <<[recorded EXCEPT !.has_asked_follow_up = TRUE]>>
                     /\ result' = [op |-> "submit_answer", status |-> "raised",
                                   exception |-> "AttributeError"]
                     /\ UNCHANGED interview_history
                ELSE LET advanced == AdvancedInterview(recorded)
                     IN  IF InterviewFinished(advanced)
                         THEN /\ interview_history' =
                                     HistoryWith(interview_history,
                                                 CompletedInterview(advanced))
                              /\ current_interview' = <<>>
                              /\ result' =
                                     [op |-> "submit_answer", status |-> "completed",
                                      interview_id |-> advanced.interview_id,
                                      final_report |->
                                          GenerateFinalReport(advanced.evaluations,
                                                              advanced.role)]
                         ELSE /\ current_interview' = <<advanced>>
                              /\ result' =
                                     [op |-> "submit_answer", status |-> "continue",
                                      evaluation |-> evaluation,
                                      next_question |-> GetCurrentQuestion(advanced),
                                      progress |->
                                          [current |-> advanced.current_question_index,
                                           total |-> Len(advanced.questions)]]
                              /\ UNCHANGED interview_history

\* submit_answer(response) within the MaxAnswers answers of a behaviour
SubmitAnswer(response, reply) ==
    SubmitAnswerUpTo(response, reply, MaxAnswers)

\* line 311 clearing the follow-up flag as well
PausedInterview_ClearsFollowUp(interview) ==
    [interview EXCEPT !.status = "paused", !.has_asked_follow_up = FALSE]

\* line 311 of pause_interview
PausedInterview(interview) ==
    [interview EXCEPT !.status = "paused"]

\* line 324 clearing the follow-up flag as well
ResumedInterview_ClearsFollowUp(interview) ==
    [interview EXCEPT !.status = "in_progress", !.has_asked_follow_up = FALSE]

\* line 324 of resume_interview
ResumedInterview(interview) ==
    [interview EXCEPT !.status = "in_progress"]

\* pause_interview
PauseInterview ==
    /\ IF current_interview = <<>>
       THEN /\ result' = [op |-> "pause_interview", status |-> "error",
                          error |-> "No active interview to pause"]
            /\ UNCHANGED current_interview
       ELSE /\ current_interview' = <<PausedInterview(current_interview[1])>>
            /\ result' = [op |-> "pause_interview", status |-> "paused"]
    /\ UNCHANGED <<questions, storage_file, interview_history, interviews_started>>

\* resume_interview without the test of line 321
ResumeInterview_AnyStatus ==
    /\ IF current_interview = <<>>
       THEN /\ result' = [op |-> "resume_interview", status |-> "error",
                          error |-> "No interview to resume"]
            /\ UNCHANGED current_interview
       ELSE /\ current_interview' = <<ResumedInterview(current_interview[1])>>
            /\ result' = [op |-> "resume_interview", status |-> "resumed",
                          current_question |-> GetCurrentQuestion(current_interview[1])]
    /\ UNCHANGED <<questions, storage_file, interview_history, interviews_started>>

\* resume_interview
ResumeInterview ==
    /\ IF current_interview = <<>>
       THEN /\ result' = [op |-> "resume_interview", status |-> "error",
                          error |-> "No interview to resume"]
            /\ UNCHANGED current_interview
       ELSE IF current_interview[1].status # "paused"
       THEN /\ result' = [op |-> "resume_interview", status |-> "error",
                          error |-> "Interview is not in paused state"]
            /\ UNCHANGED current_interview
       ELSE /\ current_interview' = <<ResumedInterview(current_interview[1])>>
            /\ result' = [op |-> "resume_interview", status |-> "resumed",
                          current_question |-> GetCurrentQuestion(current_interview[1])]
    /\ UNCHANGED <<questions, storage_file, interview_history, interviews_started>>

Next ==
    \/ \E role \in Roles, question_count \in QuestionCounts :
         StartInterview(role, question_count)
    \/ \E response \in Responses, reply \in OracleReplies :
         SubmitAnswer(response, reply)
    \/ PauseInterview
    \/ ResumeInterview

Spec == Init /\ [][Next]_vars

(***************************************************************************)
(* The orchestrator under an oracle that also replies with a well-formed   *)
(* object whose numbers lie outside 0..100                                 *)
(***************************************************************************)
\* OracleReplies and a reply '{"score": 150, ...}', which lines 92-94 of
\* _parse_ai_evaluation accept as it is
WideOracleReplies ==
    OracleReplies \cup
    { [kind |-> "json", score |-> 150, technical_accuracy |-> 120, depth |-> 80,
       practical_application |-> 85] }

OracleNext ==
    \/ \E role \in Roles, question_count \in QuestionCounts :
         StartInterview(role, question_count)
    \/ \E response \in Responses, reply \in WideOracleReplies :
         SubmitAnswer(response, reply)
    \/ PauseInterview
    \/ ResumeInterview

SpecOracle == Init /\ [][OracleNext]_vars

(***************************************************************************)
(* Session start on its own: start_interview for every role of the         *)
(* thresholds table and one outside it, with up to the default number of   *)
(* questions                                                               *)
(***************************************************************************)
\* question_count: int = 6, line 26
DefaultQuestionCount == 6

\* the roles start_interview is called with
SelectRoles == {"finance", "operations", "data_analytics", "general"}

SelectNext ==
    \E role \in SelectRoles, question_count \in 0..DefaultQuestionCount :
        StartInterview(role, question_count)

SpecSelect == Init /\ [][SelectNext]_vars

(***************************************************************************)
(* The question store on its own: a store constructed on a missing file,   *)
(* then store_question, update_question_performance and delete_question    *)
(* calls, and new stores constructed from the file                         *)
(***************************************************************************)
\* the number of calls that write, counted in result.calls
MaxStoreCalls == 3

\* ids of calls: two seed questions, a generated question, an unknown id
CallIds == {1, 3, HashId(<<"basic", 1>>), 99}

\* scores and outcomes of update_question_performance calls
CallScores == {40, 100}

CallOutcomes == {"None", "hired", "not_hired"}

\* questions of store_question calls: a generated question, which carries
\* an id, and a question without one
CallQuestions ==
    { q \in UseTemplateQuestion({"basic_formulas"}, "basic") :
          q.question = <<"basic", 1>> }
    \cup { [question |-> <<"custom", 1>>, category |-> "scenario_based",
            difficulty |-> "advanced", target_roles |-> {"operations"},
            generated |-> FALSE] }

\* QuestionStorageAgent() with no file: the seed questions, saved
StoreInit ==
    /\ questions = seed_questions
    /\ storage_file = SaveQuestions(seed_questions)
    /\ current_interview = <<>>
    /\ interview_history = <<>>
    /\ interviews_started = 0
    /\ result = [op |-> "__init__", status |-> "none", calls |-> 0]

\* store_question(question)
StoreQuestionCall(question) ==
    /\ result.calls < MaxStoreCalls
    /\ questions' = StoreQuestion(questions, question)
    /\ storage_file' = SaveQuestions(questions')
    /\ result' = [op |-> "store_question", status |-> "returned",
                  calls |-> result.calls + 1,
                  id |-> questions'[Len(questions')].id]
    /\ UNCHANGED <<current_interview, interview_history, interviews_started>>

\* update_question_performance(question_id, score, outcome)
UpdateQuestionPerformanceCall(question_id, score, outcome) ==
    /\ result.calls < MaxStoreCalls
    /\ questions' = UpdateQuestionPerformance(questions, question_id, score, outcome)
    /\ storage_file' = SaveQuestions(questions')
    /\ result' = [op |-> "update_question_performance", status |-> "returned",
                  calls |-> result.calls + 1,
                  question_id |-> question_id, score |-> score,
                  outcome |-> outcome]
    /\ UNCHANGED <<current_interview, interview_history, interviews_started>>

\* delete_question(question_id): saves only when a record was removed
DeleteQuestionCall(question_id) ==
    /\ result.calls < MaxStoreCalls
    /\ questions' = DeleteQuestion(questions, question_id)
    /\ storage_file' = IF questions' # questions THEN SaveQuestions(questions')
                       ELSE storage_file
    /\ result' = [op |-> "delete_question", status |-> "returned",
                  calls |-> result.calls + 1,
                  question_id |-> question_id,
                  deleted |-> questions' # questions]
    /\ UNCHANGED <<current_interview, interview_history, interviews_started>>

\* QuestionStorageAgent() on the file the store has written
ConstructStore ==
    /\ questions' = LoadQuestions(storage_file)
    /\ result' = [op |-> "load_questions", status |-> "returned",
                  calls |-> result.calls]
    /\ UNCHANGED <<storage_file, current_interview, interview_history,
                   interviews_started>>

StoreNext ==
    \/ \E question \in CallQuestions : StoreQuestionCall(question)
    \/ \E question_id \in CallIds, score \in CallScores, outcome \in CallOutcomes :
         UpdateQuestionPerformanceCall(question_id, score, outcome)
    \/ \E question_id \in CallIds : DeleteQuestionCall(question_id)
    \/ ConstructStore

SpecStore == StoreInit /\ [][StoreNext]_vars

(***************************************************************************)
(* _calculate_effectiveness on its own: the statistics of a question are   *)
(* drawn, then the score is computed as update_question_performance does   *)
(* at line 181                                                             *)
(***************************************************************************)
EffUsageCounts == {0, 1, 2, 3, 4, 25, 49, 50, 51}

\* averages of scores in 0..100, whole and fractional
EffAvgScores ==
    {RInt(a) : a \in {0, 10, 39, 40, 41, 69, 70, 71, 99, 100}}
    \cup {Rat(205, 3), Rat(115, 3)}

EffSuccessRates == {RInt(0), Rat(1, 3), Rat(1, 2), RInt(1)}

EffInit ==
    /\ questions = seed_questions
    /\ storage_file = SaveQuestions(seed_questions)
    /\ current_interview = <<>>
    /\ interview_history = <<>>
    /\ interviews_started = 0
    /\ \E usage_count \in EffUsageCounts, avg_score \in EffAvgScores,
          success_rate \in EffSuccessRates :
          result = [op |-> "effectiveness_arguments", status |-> "none",
                    question |-> [usage_count |-> usage_count,
                                  avg_score |-> avg_score,
                                  success_rate |-> success_rate]]

\* question['effectiveness_score'] = self._calculate_effectiveness(question)
ComputeEffectiveness ==
    /\ result.op = "effectiveness_arguments"
    /\ result' = [op |-> "_calculate_effectiveness", status |-> "returned",
                  question |-> result.question,
                  effectiveness_score |-> CalculateEffectiveness(result.question)]
    /\ UNCHANGED <<questions, storage_file, current_interview,
                   interview_history, interviews_started>>

EffNext == ComputeEffectiveness

SpecEff == EffInit /\ [][EffNext]_vars

(***************************************************************************)
(* get_questions_by_criteria on its own: a store and the arguments are     *)
(* drawn, then the query is made                                           *)
(***************************************************************************)
\* three uses of one question with the same score and outcome
UsedThrice(store, question_id, score, outcome) ==
    UpdateQuestionPerformance(
        UpdateQuestionPerformance(
            UpdateQuestionPerformance(store, question_id, score, outcome),
            question_id, score, outcome),
        question_id, score, outcome)

\* the empty store, the seed questions, and the seed questions after uses
\* that raise the effectiveness of question 5 and lower that of question 3
CriteriaStores ==
    { <<>>,
      seed_questions,
      UsedThrice(seed_questions, 5, 100, "hired"),
      UsedThrice(UsedThrice(seed_questions, 5, 100, "hired"), 3, 70, "not_hired") }

CriteriaCategories == {<<>>, <<"basic_formulas">>, <<"lookup_functions">>}

CriteriaDifficulties == {<<>>, <<"basic">>, <<"advanced">>}

CriteriaRoles == {<<>>, <<"finance">>, <<"operations">>, <<"marketing">>}

CriteriaMinEffectiveness == {RInt(0), Rat(1, 2), Rat(6, 10)}

CriteriaCounts == {<<>>, <<0>>, <<1>>, <<2>>, <<10>>}

CriteriaInit ==
    /\ \E store \in CriteriaStores :
          /\ questions = store
          /\ storage_file = SaveQuestions(store)
    /\ current_interview = <<>>
    /\ interview_history = <<>>
    /\ interviews_started = 0
    /\ \E category \in CriteriaCategories, difficulty \in CriteriaDifficulties,
          role \in CriteriaRoles,
          min_effectiveness \in CriteriaMinEffectiveness,
          count \in CriteriaCounts :
          result = [op |-> "criteria_arguments", status |-> "none",
                    category |-> category, difficulty |-> difficulty,
                    role |-> role, min_effectiveness |-> min_effectiveness,
                    count |-> count]

\* get_questions_by_criteria(category, difficulty, role, min_effectiveness, count)
QueryByCriteria ==
    /\ result.op = "criteria_arguments"
    /\ result' = [result EXCEPT
                    !.op = "get_questions_by_criteria",
                    !.status = "returned"]
                  @@ [returned |->
                        GetQuestionsByCriteriaOf(questions, result.category,
                            result.difficulty, result.role,
                            result.min_effectiveness, result.count)]
    /\ UNCHANGED <<questions, storage_file, current_interview,
                   interview_history, interviews_started>>

CriteriaNext == QueryByCriteria

SpecCriteria == CriteriaInit /\ [][CriteriaNext]_vars

(***************************************************************************)
(* get_best_questions on its own: a store, a role and a count are drawn,   *)
(* then the query is made                                                  *)
(***************************************************************************)
\* the generated question with text <<difficulty, k>> of a template
GeneratedQuestion(category, difficulty, k) ==
    CHOOSE q \in UseTemplateQuestion({category}, difficulty) :
        q.question = <<difficulty, k>>

\* the seed questions with generated questions stored behind them
WithGenerated(list) ==
    IF list = <<>> THEN seed_questions
    ELSE StoreQuestion(
             IF Len(list) = 1 THEN seed_questions
             ELSE StoreQuestion(
                      IF Len(list) = 2 THEN seed_questions
                      ELSE StoreQuestion(seed_questions, list[Len(list) - 2]),
                      list[Len(list) - 1]),
             list[Len(list)])

\* the empty store, the seed questions, the seed questions after uses, and
\* the seed questions with one, two and three generated questions, also
\* with one generated question stored twice as start_interview does
BestStores ==
    { <<>>,
      seed_questions,
      UsedThrice(seed_questions, 5, 100, "hired"),
      UsedThrice(UsedThrice(seed_questions, 6, 100, "hired"), 3, 70, "not_hired"),
      WithGenerated(<<GeneratedQuestion("basic_formulas", "basic", 1)>>),
      WithGenerated(<<GeneratedQuestion("basic_formulas", "basic", 1),
                      GeneratedQuestion("basic_formulas", "basic", 1)>>),
      WithGenerated(<<GeneratedQuestion("basic_formulas", "basic", 1),
                      GeneratedQuestion("basic_formulas", "basic", 2),
                      GeneratedQuestion("data_analysis", "intermediate", 1)>>),
      UsedThrice(WithGenerated(<<GeneratedQuestion("basic_formulas", "basic", 1),
                                 GeneratedQuestion("basic_formulas", "basic", 2),
                                 GeneratedQuestion("data_analysis", "intermediate", 1)>>),
                 HashId(<<"basic", 2>>), 100, "hired") }

BestRoles == {"finance", "operations", "data_analytics", "general"}

\* one more than the largest role pool of BestStores
MaxBestCount == 9

BestInit ==
    /\ \E store \in BestStores :
          /\ questions = store
          /\ storage_file = SaveQuestions(store)
    /\ current_interview = <<>>
    /\ interview_history = <<>>
    /\ interviews_started = 0
    /\ \E role \in BestRoles, count \in 0..MaxBestCount :
          result = [op |-> "best_arguments", status |-> "none",
                    role |-> role, count |-> count]

\* get_best_questions(role, count)
QueryBest ==
    /\ result.op = "best_arguments"
    /\ result' = [op |-> "get_best_questions", status |-> "returned",
                  role |-> result.role, count |-> result.count,
                  returned |-> GetBestQuestions(questions, result.role, result.count)]
    /\ UNCHANGED <<questions, storage_file, current_interview,
                   interview_history, interviews_started>>

BestNext == QueryBest

SpecBest == BestInit /\ [][BestNext]_vars

(***************************************************************************)
(* generate_interview_questions on its own: a role and a count are drawn,  *)
(* then the questions are generated                                        *)
(***************************************************************************)
MaxGenerateCount == 7

GenerateRoles == {"finance", "operations", "data_analytics", "general"}

GenerateInit ==
    /\ questions = seed_questions
    /\ storage_file = SaveQuestions(seed_questions)
    /\ current_interview = <<>>
    /\ interview_history = <<>>
    /\ interviews_started = 0
    /\ \E role \in GenerateRoles, count \in 0..MaxGenerateCount :
          result = [op |-> "generate_arguments", status |-> "none",
                    role |-> role, count |-> count]

\* generate_interview_questions(role, count), with the distribution it
\* computed at lines 80-84
GenerateQuestions ==
    /\ result.op = "generate_arguments"
    /\ \E generated \in GenerateInterviewQuestions(result.role, result.count) :
          result' = [op |-> "generate_interview_questions", status |-> "returned",
                     role |-> result.role, count |-> result.count,
                     difficulty_distribution |-> DifficultyDistribution(result.count),
                     returned |-> generated]
    /\ UNCHANGED <<questions, storage_file, current_interview,
                   interview_history, interviews_started>>

GenerateNext == GenerateQuestions

SpecGenerate == GenerateInit /\ [][GenerateNext]_vars

(***************************************************************************)
(* Long sessions: finance interviews of one or two questions with up to    *)
(* MaxSessionAnswers answers, so that a question can be answered, followed *)
(* up and answered again and the next ones too                             *)
(***************************************************************************)
MaxSessionAnswers == 4

SessionQuestionCounts == 1..2

SessionNext ==
    \/ \E question_count \in SessionQuestionCounts :
         StartInterview("finance", question_count)
    \/ \E response \in Responses, reply \in OracleReplies :
         SubmitAnswerUpTo(response, reply, MaxSessionAnswers)
    \/ PauseInterview
    \/ ResumeInterview

SpecSession == Init /\ [][SessionNext]_vars

(***************************************************************************)
(* The report generator on its own: generate_final_report applied to a     *)
(* list of evaluations and a role                                          *)
(***************************************************************************)
\* the longest list of evaluations a report is generated for
MaxEvaluations == 4

\* scores of the evaluations: both sides of the tests "< 30" and "< 40",
\* and values whose averages meet 50, 70, 75, 80 and 85
ReportScores == {0, 29, 30, 39, 55, 75, 90, 100}

\* the three roles of hiring_thresholds and one it does not hold
ReportRoles == {"finance", "operations", "data_analytics", "general"}

\* the lists of scores of a length
ScoreLists(n) == [1..n -> ReportScores]

\* the list of evaluations with these scores, of which the report reads
\* the score
EvaluationsOf(scores) == [i \in 1..Len(scores) |-> [score |-> scores[i]]]

\* the arguments of one call of generate_final_report
ReportInit ==
    /\ questions = seed_questions
    /\ storage_file = SaveQuestions(seed_questions)
    /\ current_interview = <<>>
    /\ interview_history = <<>>
    /\ interviews_started = 0
    /\ \E n \in 0..MaxEvaluations :
         \E scores \in ScoreLists(n), role \in ReportRoles :
             result = [op |-> "report_arguments", status |-> "none",
                       evaluations |-> EvaluationsOf(scores), role |-> role]

\* generate_final_report(evaluations, role)
GenerateReport ==
    /\ result.op = "report_arguments"
    /\ LET report == GenerateFinalReport(result.evaluations, result.role)
       IN  result' = [op |-> "generate_final_report",
                      status |-> IF "raised" \in DOMAIN report
                                 THEN "raised" ELSE "returned",
                      evaluations |-> result.evaluations,
                      role |-> result.role,
                      report |-> report]
    /\ UNCHANGED <<questions, storage_file, current_interview,
                   interview_history, interviews_started>>

ReportNext == GenerateReport

SpecReport == ReportInit /\ [][ReportNext]_vars

(***************************************************************************)
(* The evaluator on its own: evaluate_comprehensive applied to one         *)
(* question, one response and one outcome of the oracle call               *)
(***************************************************************************)
\* word counts on both sides of the tests of lines 137-141 and 180
EvalWordCounts == {0, 5, 6, 15, 16, 20, 21, 30, 31}

\* responses as the scorers read them
EvalResponses ==
    [words : EvalWordCounts, has_function : BOOLEAN, has_formula : BOOLEAN]

\* outcomes of the oracle call of lines 29-30: the call raises; the reply
\* holds the object asked for, an object with scores outside 0..100, an
\* object without "score" or an empty object; the reply holds braces that
\* are no JSON; the reply is plain text
EvalReplies ==
    { [kind |-> "raise"],
      [kind |-> "json", score |-> 85, technical_accuracy |-> 90, depth |-> 80,
       practical_application |-> 85],
      [kind |-> "json", score |-> 150, technical_accuracy |-> 120, depth |-> 80,
       practical_application |-> 85],
      [kind |-> "json", score |-> -5, technical_accuracy |-> 0, depth |-> 0,
       practical_application |-> 0],
      [kind |-> "json", technical_accuracy |-> 60, depth |-> 60,
       practical_application |-> 60],
      [kind |-> "json"],
      [kind |-> "broken_json", numbers |-> <<>>],
      [kind |-> "broken_json", numbers |-> <<85, 90>>],
      [kind |-> "text", numbers |-> <<>>],
      [kind |-> "text", numbers |-> <<0>>],
      [kind |-> "text", numbers |-> <<7, 10>>],
      [kind |-> "text", numbers |-> <<250>>] }

\* the questions the evaluator is applied to
EvalQuestions == { QuestionRef(seed_questions[1]), QuestionRef(seed_questions[3]) }

\* the arguments of one call of evaluate_comprehensive and the outcome of
\* the oracle call it will make
EvalInit ==
    /\ questions = seed_questions
    /\ storage_file = SaveQuestions(seed_questions)
    /\ current_interview = <<>>
    /\ interview_history = <<>>
    /\ interviews_started = 0
    /\ \E question \in EvalQuestions, response \in EvalResponses,
          reply \in EvalReplies :
            result = [op |-> "evaluate_arguments", status |-> "none",
                      question |-> question, response |-> response,
                      reply |-> reply]

\* evaluate_comprehensive(question, response)
EvaluateAnswer ==
    /\ result.op = "evaluate_arguments"
    /\ result' = [op |-> "evaluate_comprehensive", status |-> "returned",
                  response |-> result.response, reply |-> result.reply,
                  evaluation |-> EvaluateComprehensive(
                      result.question, result.response, result.reply)]
    /\ UNCHANGED <<questions, storage_file, current_interview,
                   interview_history, interviews_started>>

EvalNext == EvaluateAnswer

SpecEval == EvalInit /\ [][EvalNext]_vars


(***************************************************************************)
(* Vocabulary of the properties                                            *)
(***************************************************************************)
\* a session is active
Active == current_interview # <<>>

\* the active session
Session == current_interview[1]

\* this step is a submit_answer call that passed both checks: the answer
\* was evaluated and recorded
AnswerRecorded ==
    /\ Active
    /\ GetCurrentQuestion(Session) # <<>>
    /\ result'.op = "submit_answer"

\* the session an answer was recorded in, as the step leaves it: still
\* active, or the entry the step appended to the history
SessionAfter ==
    IF current_interview' # <<>> THEN current_interview'[1]
    ELSE interview_history'[Len(interview_history')]

\* the score of the evaluation the step recorded
RecordedScore ==
    SessionAfter.evaluations[Len(SessionAfter.evaluations)].score

\* the step keeps the active session (no completion, no new session)
SameSession ==
    /\ Active
    /\ current_interview' # <<>>
    /\ current_interview'[1].interview_id = Session.interview_id

\* the step leaves every entry of the history where and as it was
HistoryKept ==
    /\ Len(interview_history') >= Len(interview_history)
    /\ \A i \in 1..Len(interview_history) : interview_history'[i] = interview_history[i]

(***************************************************************************)
(* C1: between two advances of current_question_index at most one          *)
(* follow-up is taken: a recorded answer scoring below 60 while no         *)
(* follow-up is pending leaves the index and sets has_asked_follow_up, and *)
(* any recorded answer while a follow-up is pending advances the index by  *)
(* one and clears the flag, whatever it scores.                            *)
(***************************************************************************)
C1_OneFollowUpThenAdvance ==
    [][AnswerRecorded =>
         /\ (~Session.has_asked_follow_up /\ RecordedScore < 60) =>
                /\ SessionAfter.current_question_index = Session.current_question_index
                /\ SessionAfter.has_asked_follow_up
         /\ Session.has_asked_follow_up =>
                /\ SessionAfter.current_question_index = Session.current_question_index + 1
                /\ ~SessionAfter.has_asked_follow_up]_vars

\* two answers below 60 were given to question 0 and the session moved on
C1_Witness ==
    /\ Active
    /\ Session.current_question_index = 1
    /\ Len(Session.evaluations) = 2
    /\ Session.evaluations[1].score < 60
    /\ Session.evaluations[2].score < 60
    /\ result.op = "submit_answer"
    /\ result.status = "continue"

(***************************************************************************)
(* C2: a recorded answer scoring below 60 while no follow-up was asked for *)
(* the current question returns a 'follow_up' result, leaves the index and *)
(* sets has_asked_follow_up.                                               *)
(***************************************************************************)
C2_FollowUpResult ==
    [][(AnswerRecorded /\ ~Session.has_asked_follow_up /\ RecordedScore < 60) =>
         /\ result'.status = "follow_up"
         /\ SessionAfter.current_question_index = Session.current_question_index
         /\ SessionAfter.has_asked_follow_up]_vars

(***************************************************************************)
(* C3: within one session current_question_index never decreases, every    *)
(* operation leaves it or adds exactly 1, and only submit_answer adds.     *)
(***************************************************************************)
C3_IndexMonotone ==
    [][/\ SameSession =>
            /\ current_interview'[1].current_question_index
                   \in {Session.current_question_index,
                        Session.current_question_index + 1}
            /\ current_interview'[1].current_question_index
                   # Session.current_question_index
                   => result'.op = "submit_answer"
       /\ (Active /\ current_interview' = <<>>) =>
            /\ result'.op = "submit_answer"
            /\ SessionAfter.interview_id = Session.interview_id
            /\ SessionAfter.current_question_index
                   = Session.current_question_index + 1]_vars

\* a session that advanced past its first question and is still active
C3_Witness ==
    /\ Active
    /\ Session.current_question_index = 1
    /\ result.op = "submit_answer"

(***************************************************************************)
(* C4: in every state with an active session the index is below            *)
(* len(questions) (so that index = len(questions) exactly when the session *)
(* is completed), for every question set, the empty one included.          *)
(***************************************************************************)
C4_ActiveIndexBelowLength ==
    Active => Session.current_question_index < Len(Session.questions)

(***************************************************************************)
(* C5: a recorded answer that does not take the follow-up branch adds one  *)
(* to the index and clears has_asked_follow_up; it returns 'completed'     *)
(* with the final report when the new index equals len(questions), else    *)
(* 'continue' with next_question = questions[new index] and progress       *)
(* current = new index, total = len(questions), 1 <= current < total.      *)
(***************************************************************************)
C5_AdvanceOrComplete ==
    [][(AnswerRecorded /\ (RecordedScore >= 60 \/ Session.has_asked_follow_up)) =>
         LET after == SessionAfter
             new_index == Session.current_question_index + 1
         IN  /\ after.interview_id = Session.interview_id
             /\ after.current_question_index = new_index
             /\ ~after.has_asked_follow_up
             /\ IF new_index = Len(Session.questions)
                THEN /\ result'.status = "completed"
                     /\ current_interview' = <<>>
                     /\ "overall_score" \in DOMAIN result'.final_report
                     /\ "hiring_decision" \in DOMAIN result'.final_report
                ELSE /\ result'.status = "continue"
                     /\ current_interview' # <<>>
                     /\ result'.next_question = <<Session.questions[new_index + 1]>>
                     /\ result'.progress.current = new_index
                     /\ result'.progress.total = Len(Session.questions)
                     /\ 1 <= result'.progress.current
                     /\ result'.progress.current < result'.progress.total]_vars

\* an answer scoring at least 60 moved a two-question session to question 1
C5_Witness ==
    /\ Active
    /\ result.op = "submit_answer"
    /\ result.status = "continue"
    /\ result.progress.current = 1
    /\ result.evaluation.score >= 60

(***************************************************************************)
(* C6: submit_answer with no active session, or with an active session     *)
(* that has no current question, returns an error-shaped result and leaves *)
(* the session, the store, the snapshot and the history as they were.      *)
(***************************************************************************)
C6_SubmitErrorChangesNothing ==
    [][(result'.op = "submit_answer"
        /\ (~Active \/ GetCurrentQuestion(Session) = <<>>)) =>
         /\ result'.status = "error"
         /\ current_interview' = current_interview
         /\ questions' = questions
         /\ storage_file' = storage_file
         /\ interview_history' = interview_history]_vars

\* submit_answer was refused on an active session without a current question
C6_Witness ==
    /\ Active
    /\ GetCurrentQuestion(Session) = <<>>
    /\ Session.responses = <<>>
    /\ result.op = "submit_answer"
    /\ result.status = "error"
    /\ result.error = "No current question available"

(***************************************************************************)
(* C7: from every state with an active session the completed state is      *)
(* reachable by further submit_answer calls.  submit_answer is the only    *)
(* operation that moves a session forward and what it does depends on the  *)
(* state alone once it is refused, so the claim needs every submit_answer  *)
(* on an active session to record its answer.                              *)
(***************************************************************************)
C7_SubmitMovesForward ==
    [][(Active /\ result'.op = "submit_answer") =>
         /\ result'.status # "error"
         /\ Len(SessionAfter.evaluations) = Len(Session.evaluations) + 1]_vars

(***************************************************************************)
(* C8: while the oracle raises on every call (every evaluation recorded so *)
(* far, in the history and in the active session, is a 'Fallback' one), no *)
(* submit_answer call fails.                                               *)
(***************************************************************************)
C8_NoFailureUnderOutage ==
    (/\ \A i \in 1..Len(interview_history) :
          \A k \in 1..Len(interview_history[i].evaluations) :
            interview_history[i].evaluations[k].evaluation_source = "Fallback"
     /\ Active
     /\ \A k \in 1..Len(Session.evaluations) :
          Session.evaluations[k].evaluation_source = "Fallback"
     /\ result.op = "submit_answer")
    => result.status # "raised"

C11_PauseResumeFrame ==
    [][result'.op \in {"pause_interview", "resume_interview"} =>
         /\ questions' = questions
         /\ storage_file' = storage_file
         /\ interview_history' = interview_history
         /\ Active <=> current_interview' # <<>>
         /\ Active =>
              /\ current_interview'[1].interview_id = Session.interview_id
              /\ current_interview'[1].current_question_index =
                     Session.current_question_index
              /\ current_interview'[1].questions = Session.questions
              /\ current_interview'[1].responses = Session.responses
              /\ current_interview'[1].evaluations = Session.evaluations
              /\ current_interview'[1].has_asked_follow_up =
                     Session.has_asked_follow_up]_vars

\* a session that holds a recorded answer and has asked its follow-up was
\* paused and resumed
C11_Witness ==
    /\ Active
    /\ result.op = "resume_interview"
    /\ result.status = "resumed"
    /\ Len(Session.evaluations) = 1
    /\ Len(Session.responses) = 1
    /\ Session.has_asked_follow_up
    /\ interview_history # <<>>

(***************************************************************************)
(* C12: resume_interview returns an error and leaves the session status    *)
(* unchanged whenever there is no active session or the status of the      *)
(* active session is not paused; it sets the status to in_progress only    *)
(* from paused.                                                            *)
(***************************************************************************)
C12_ResumeOnlyFromPaused ==
    [][result'.op = "resume_interview" =>
         IF Active /\ Session.status = "paused"
         THEN /\ result'.status = "resumed"
              /\ current_interview' # <<>>
              /\ current_interview'[1].status = "in_progress"
         ELSE /\ result'.status = "error"
              /\ current_interview' = current_interview]_vars

\* resume_interview was refused on a session that is in progress
C12_Witness ==
    /\ Active
    /\ result.op = "resume_interview"
    /\ result.status = "error"
    /\ Session.status = "in_progress"
    /\ Len(Session.evaluations) = 1

(***************************************************************************)
(* C13: evaluate_comprehensive returns an evaluation for every outcome of  *)
(* the oracle call and never propagates a failure: a reply holding the     *)
(* structured object gives evaluation_source AI, a reply that cannot be    *)
(* parsed as the structured object gives AI_Text, and an oracle call that  *)
(* raises gives Fallback.                                                  *)
(***************************************************************************)
C13_SourceByOracleOutcome ==
    result.op = "evaluate_comprehensive" =>
        /\ result.status = "returned"
        /\ {"score", "technical_accuracy", "depth", "practical_application",
            "evaluation_source", "response_length", "question_id"}
               \subseteq DOMAIN result.evaluation
        /\ result.reply.kind = "json" =>
               result.evaluation.evaluation_source = "AI"
        /\ result.reply.kind \in {"broken_json", "text"} =>
               result.evaluation.evaluation_source = "AI_Text"
        /\ result.reply.kind = "raise" =>
               result.evaluation.evaluation_source = "Fallback"
        /\ result.evaluation.evaluation_source \in {"AI", "AI_Text", "Fallback"}

\* a reply with braces that json.loads rejects was scored by the text scan
C13_Witness ==
    /\ result.op = "evaluate_comprehensive"
    /\ result.reply.kind = "broken_json"
    /\ result.evaluation.evaluation_source = "AI_Text"
    /\ result.evaluation.score = 85

(***************************************************************************)
(* C14: every evaluation recorded in the evaluations list of a session,    *)
(* active or completed, has an integer score in 0..100, whichever of the   *)
(* three evaluator paths produced it and whatever the oracle returned.     *)
(***************************************************************************)
C14_RecordedScoresInRange ==
    /\ Active =>
         \A i \in 1..Len(Session.evaluations) :
             Session.evaluations[i].score \in 0..100
    /\ \A h \in 1..Len(interview_history) :
         \A i \in 1..Len(interview_history[h].evaluations) :
             interview_history[h].evaluations[i].score \in 0..100

(***************************************************************************)
(* C15: generate_final_report called with an empty list of evaluations     *)
(* returns, and does not fail, a report whose overall_score is 0, whose    *)
(* hiring decision is REJECT and whose critical_gaps list is not empty.    *)
(***************************************************************************)
C15_EmptyReportRejects ==
    (result.op = "generate_final_report" /\ result.evaluations = <<>>) =>
        /\ result.status = "returned"
        /\ result.report.overall_score = RInt(0)
        /\ result.report.hiring_decision.decision = "REJECT"
        /\ result.report.critical_gaps # <<>>

(***************************************************************************)
(* Vocabulary of the properties of the report                              *)
(***************************************************************************)
\* generate_final_report was called with at least one evaluation
ReportMade ==
    /\ result.op = "generate_final_report"
    /\ result.evaluations # <<>>

\* the number of evaluations of the call and the sum of their scores
ReportCount == Len(result.evaluations)

ReportTotal == SumScores(result.evaluations)

\* the number of evaluations of the call that score below the limit
ScoringBelow(limit) ==
    Cardinality({i \in 1..ReportCount : result.evaluations[i].score < limit})

\* all evaluations of the call have this score
AllScore(score) ==
    \A i \in 1..ReportCount : result.evaluations[i].score = score

\* the threshold the claims name for the role of the call
ClaimedThreshold ==
    IF result.role = "finance" THEN 75
    ELSE IF result.role = "data_analytics" THEN 80
    ELSE 70

\* the average is at least the bound
AverageAtLeast(bound) == ReportTotal >= bound * ReportCount

\* the decision and confidence of the ladder on the average
ClaimedLadder ==
    IF AverageAtLeast(85) THEN <<"STRONG HIRE", "High">>
    ELSE IF AverageAtLeast(ClaimedThreshold) THEN <<"CONDITIONAL HIRE", "Medium">>
    ELSE IF AverageAtLeast(50) THEN <<"NO HIRE - TRAINING REQUIRED", "High">>
    ELSE <<"REJECT", "High">>

\* strictly more than half of the evaluations score below 30
MoreThanHalfBelow30 == 2 * ScoringBelow(30) > ReportCount

(***************************************************************************)
(* C16: for every non-empty list of evaluations with scores in 0..100 in   *)
(* which at most half score below 30, and every role, the hiring decision  *)
(* follows the ladder on the average with the role threshold (finance 75,  *)
(* operations 70, data_analytics 80, any other role 70): avg >= 85 gives   *)
(* STRONG HIRE/High, else avg >= threshold CONDITIONAL HIRE/Medium, else   *)
(* avg >= 50 NO HIRE - TRAINING REQUIRED/High, else REJECT/High;           *)
(* meets_threshold is avg >= threshold.  finance with all scores 90 gives  *)
(* STRONG HIRE, meets_threshold and no critical gaps; operations with all  *)
(* scores 55 gives NO HIRE - TRAINING REQUIRED.                            *)
(***************************************************************************)
C16_DecisionLadder ==
    (ReportMade /\ ~MoreThanHalfBelow30) =>
        LET hiring_decision == result.report.hiring_decision
        IN  /\ result.status = "returned"
            /\ AverageAtLeast(85) =>
                   /\ hiring_decision.decision = "STRONG HIRE"
                   /\ hiring_decision.confidence = "High"
            /\ (~AverageAtLeast(85) /\ AverageAtLeast(ClaimedThreshold)) =>
                   /\ hiring_decision.decision = "CONDITIONAL HIRE"
                   /\ hiring_decision.confidence = "Medium"
            /\ (~AverageAtLeast(ClaimedThreshold) /\ AverageAtLeast(50)) =>
                   /\ hiring_decision.decision = "NO HIRE - TRAINING REQUIRED"
                   /\ hiring_decision.confidence = "High"
            /\ ~AverageAtLeast(50) =>
                   /\ hiring_decision.decision = "REJECT"
                   /\ hiring_decision.confidence = "High"
            /\ hiring_decision.meets_threshold = AverageAtLeast(ClaimedThreshold)
            /\ (result.role = "finance" /\ AllScore(90)) =>
                   /\ hiring_decision.decision = "STRONG HIRE"
                   /\ hiring_decision.meets_threshold
                   /\ result.report.critical_gaps = <<>>
            /\ (result.role = "operations" /\ AllScore(55)) =>
                   hiring_decision.decision = "NO HIRE - TRAINING REQUIRED"

\* a finance list whose average is the threshold itself, one of its four
\* evaluations below 30: CONDITIONAL HIRE
C16_Witness ==
    /\ ReportMade
    /\ result.role = "finance"
    /\ ReportCount = 4
    /\ ScoringBelow(30) = 1
    /\ ReportTotal = 75 * ReportCount
    /\ result.report.hiring_decision.decision = "CONDITIONAL HIRE"
    /\ result.report.hiring_decision.meets_threshold

(***************************************************************************)
(* C17: for every non-empty list of evaluations, of odd or even length,    *)
(* the decision is forced to REJECT/High exactly when the number of        *)
(* evaluations scoring below 30 is strictly more than half of the number   *)
(* of evaluations, whatever the average is; when it is not more than half  *)
(* the decision of the ladder is kept.                                     *)
(***************************************************************************)
C17_OverrideMoreThanHalf ==
    ReportMade =>
        LET hiring_decision == result.report.hiring_decision
        IN  IF MoreThanHalfBelow30
            THEN /\ hiring_decision.decision = "REJECT"
                 /\ hiring_decision.confidence = "High"
            ELSE /\ hiring_decision.decision = ClaimedLadder[1]
                 /\ hiring_decision.confidence = ClaimedLadder[2]

\* two of three evaluations below 30 and the third at 100: the ladder says
\* NO HIRE - TRAINING REQUIRED and the override makes it REJECT
C17_Witness ==
    /\ ReportMade
    /\ ReportCount = 3
    /\ ScoringBelow(30) = 2
    /\ ClaimedLadder[1] = "NO HIRE - TRAINING REQUIRED"
    /\ result.report.hiring_decision.decision = "REJECT"

(***************************************************************************)
(* C18, as stated: there is a list of evaluations with scores in 0..100    *)
(* and a role for which the more-than-half-below-30 override forces the    *)
(* decision to REJECT while meets_threshold in the same report is true.    *)
(* Read where a call of generate_final_report is about to be made: among   *)
(* the lists and roles the call can be made with there is such a pair.     *)
(***************************************************************************)
C18_ForcedRejectMeetsThreshold ==
    result.op = "report_arguments" =>
        \E n \in 1..MaxEvaluations :
            \E scores \in ScoreLists(n), role \in ReportRoles :
                LET report == GenerateFinalReport(EvaluationsOf(scores), role)
                    below30 == {i \in 1..n : scores[i] < 30}
                IN  /\ \A i \in 1..n : scores[i] \in 0..100
                    /\ 2 * Cardinality(below30) > n
                    /\ report.hiring_decision.decision = "REJECT"
                    /\ report.hiring_decision.meets_threshold

(***************************************************************************)
(* C18, amended: for every non-empty list of evaluations with scores in    *)
(* 0..100 and every role, when the more-than-half-below-30 override forces *)
(* the decision to REJECT, meets_threshold in the same report is false; it *)
(* is avg >= threshold whatever the decision is, and the average of such a *)
(* list is below every role threshold.                                     *)
(***************************************************************************)
C18_ForcedRejectBelowThreshold ==
    (ReportMade /\ MoreThanHalfBelow30) =>
        /\ result.report.hiring_decision.decision = "REJECT"
        /\ result.report.hiring_decision.meets_threshold
               = AverageAtLeast(ClaimedThreshold)
        /\ ~result.report.hiring_decision.meets_threshold
        /\ 2 * ReportTotal < 129 * ReportCount

\* for a role without a threshold of its own, two evaluations at 29 and one
\* at 100: REJECT is forced at an average above 50, below the threshold
C18_Witness ==
    /\ ReportMade
    /\ result.role = "general"
    /\ MoreThanHalfBelow30
    /\ ReportTotal = 158
    /\ AverageAtLeast(50)
    /\ result.report.hiring_decision.decision = "REJECT"
    /\ ~result.report.hiring_decision.meets_threshold

(***************************************************************************)
(* C19: for every non-empty list of evaluations and every role,            *)
(* critical_gaps is the first three, in this order, of the gaps whose      *)
(* condition holds: avg < 30 (basic knowledge), avg < 50 (essential        *)
(* functions), more than 2 evaluations below 40 (pattern), role finance    *)
(* and avg < 70 (finance), role data_analytics and avg < 75 (analytics);   *)
(* the list never has more than 3 entries and is empty when no condition   *)
(* holds.                                                                  *)
(***************************************************************************)
C19_FirstThreeGaps ==
    ReportMade =>
        LET holding ==
                (IF ~AverageAtLeast(30) THEN <<"CRITICAL">> ELSE <<>>)
                \o (IF ~AverageAtLeast(50) THEN <<"MAJOR">> ELSE <<>>)
                \o (IF ScoringBelow(40) > 2 THEN <<"PATTERN">> ELSE <<>>)
                \o (IF result.role = "finance" /\ ~AverageAtLeast(70)
                    THEN <<"FINANCE CRITICAL">> ELSE <<>>)
                \o (IF result.role = "data_analytics" /\ ~AverageAtLeast(75)
                    THEN <<"ANALYTICS CRITICAL">> ELSE <<>>)
            critical_gaps == result.report.critical_gaps
        IN  /\ Len(critical_gaps) <= 3
            /\ Len(critical_gaps) = IF Len(holding) < 3 THEN Len(holding) ELSE 3
            /\ \A i \in 1..Len(critical_gaps) : critical_gaps[i] = holding[i]
            /\ holding = <<>> => critical_gaps = <<>>

\* a finance list for which four conditions hold: the finance gap, the
\* fourth, is cut off
C19_Witness ==
    /\ ReportMade
    /\ result.role = "finance"
    /\ ~AverageAtLeast(30)
    /\ ScoringBelow(40) > 2
    /\ result.report.critical_gaps = <<"CRITICAL", "MAJOR", "PATTERN">>

(***************************************************************************)
(* C20: in every reachable state of the question store, after any sequence *)
(* of start_interview and submit_answer calls across any number of         *)
(* sessions, no two question records of the store have the same id.        *)
(***************************************************************************)
C20_StoreIdsUnique ==
    \A i, j \in 1..Len(questions) :
        i # j => questions[i].id # questions[j].id

(***************************************************************************)
(* Vocabulary of the properties of session start                           *)
(***************************************************************************)
\* this step is a start_interview call
Started == result'.op = "start_interview"

\* the questions of the session the step started
StartedQuestions == current_interview'[1].questions

\* the number of records of a store that carry the id
RecordsWithId(store, id) ==
    Cardinality({i \in 1..Len(store) : store[i].id = id})

(***************************************************************************)
(* C21: after start_interview returns, every question of the session that  *)
(* the generator produced for this session has a record in the store, and  *)
(* questions that were in the store before this start_interview are not    *)
(* stored again.                                                           *)
(***************************************************************************)
C21_GeneratedStoredOnce ==
    [][Started =>
         /\ \A i \in 1..Len(StartedQuestions) :
                RecordsWithId(questions', StartedQuestions[i].id) >= 1
         /\ \A k \in 1..Len(questions) :
                RecordsWithId(questions', questions[k].id)
                    = RecordsWithId(questions, questions[k].id)]_vars

(***************************************************************************)
(* C22: submit_answer never adds or removes a question record of the       *)
(* store: a follow-up question is never persisted, and the stored question *)
(* ids are the same before and after every submit_answer call; only the    *)
(* statistics of the current question may change.                          *)
(***************************************************************************)
C22_SubmitKeepsStoreRecords ==
    [][result'.op = "submit_answer" =>
         LET changed == {k \in 1..Len(questions) : questions'[k] # questions[k]}
         IN  /\ Len(questions') = Len(questions)
             /\ \A k \in 1..Len(questions) :
                    /\ questions'[k].id = questions[k].id
                    /\ questions'[k].question = questions[k].question
                    /\ questions'[k].category = questions[k].category
                    /\ questions'[k].difficulty = questions[k].difficulty
                    /\ questions'[k].target_roles = questions[k].target_roles
                    /\ questions'[k].generated = questions[k].generated
             /\ Cardinality(changed) <= 1
             /\ \A k \in changed :
                    /\ Active
                    /\ GetCurrentQuestion(Session) # <<>>
                    /\ questions[k].id = GetCurrentQuestion(Session)[1].id]_vars

\* an answer to a generated question whose id two records of the store
\* carry was recorded, and the call ended in the follow-up branch
C22_Witness ==
    /\ result.op = "submit_answer"
    /\ result.status = "raised"
    /\ Active
    /\ Session.has_asked_follow_up
    /\ Session.questions[1].generated
    /\ RecordsWithId(questions, Session.questions[1].id) = 2
    /\ TotalUsage(questions) = 1

\* the number of records of the store before the step that target the role
\* of the call
EligibleStored ==
    Cardinality({k \in 1..Len(questions) : result'.role \in questions[k].target_roles})

\* the question texts the generator can render for the role of the call,
\* of one difficulty or of any
Producible(difficulties) ==
    UNION { t.texts : t \in { b \in base_questions :
                                 /\ b.category \in RoleFocus(result'.role)
                                 /\ b.difficulty \in difficulties } }

Difficulties == {"basic", "intermediate", "advanced"}

(***************************************************************************)
(* C23: start_interview(role, question_count) selects at most              *)
(* question_count questions, and exactly question_count whenever the       *)
(* number of stored questions eligible for the role plus the number of     *)
(* questions the generator can produce for the role is at least            *)
(* question_count.                                                         *)
(***************************************************************************)
C23_SelectsRequestedCount ==
    [][Started =>
         /\ Len(StartedQuestions) <= result'.question_count
         /\ EligibleStored + Cardinality(Producible(Difficulties))
                 >= result'.question_count
               => Len(StartedQuestions) = result'.question_count]_vars

\* the number of questions the balance asks of a difficulty tier: a third of
\* question_count each, the remainder to intermediate first, then basic
TierTarget(difficulty) ==
    LET count == result'.question_count
    IN  count \div 3
          + (IF difficulty = "intermediate" /\ count % 3 >= 1 THEN 1 ELSE 0)
          + (IF difficulty = "basic" /\ count % 3 >= 2 THEN 1 ELSE 0)

\* the size of the pool of a tier: the stored questions of the tier that
\* target the role of the call and the questions the generator can render
TierPool(difficulty) ==
    Cardinality({k \in 1..Len(questions) :
                   /\ result'.role \in questions[k].target_roles
                   /\ questions[k].difficulty = difficulty})
      + Cardinality(Producible({difficulty}))

\* the number of questions of the tier in the session the step started
TierChosen(difficulty) ==
    Cardinality({i \in 1..Len(StartedQuestions) :
                   StartedQuestions[i].difficulty = difficulty})

(***************************************************************************)
(* C24: the question set chosen by start_interview is balanced across the  *)
(* difficulty tiers: with a target of question_count // 3 per tier and the *)
(* remainder given to intermediate first, then basic, then advanced, each  *)
(* tier contributes its target number of questions whenever the pool of    *)
(* stored questions eligible for the role and of generated questions holds *)
(* at least that many questions of the tier.                               *)
(***************************************************************************)
C24_BalancedTiers ==
    [][Started =>
         \A difficulty \in Difficulties :
             TierPool(difficulty) >= TierTarget(difficulty)
               => TierChosen(difficulty) >= TierTarget(difficulty)]_vars


(***************************************************************************)
(* Claims about the question store (SpecStore)                             *)
(***************************************************************************)
\* the step is a call of update_question_performance
UpdateCalled == result'.op = "update_question_performance"

\* the index of the first record of the store with this id
FirstWithId(store, id) ==
    CHOOSE i \in 1..Len(store) :
        /\ store[i].id = id
        /\ \A j \in 1..(i - 1) : store[j].id # id

\* C25: update_question_performance with an id that matches no stored
\* question leaves every question record unchanged (usage_count, avg_score,
\* success_rate, effectiveness_score and history) and returns
C25_UnknownIdChangesNothing ==
    [][(UpdateCalled /\ RecordsWithId(questions, result'.question_id) = 0)
         => /\ questions' = questions
            /\ result'.status = "returned"]_vars

\* an update with the unknown id 99 on a store that earlier calls changed
C25_Witness ==
    /\ result.op = "update_question_performance"
    /\ result.question_id = 99
    /\ RecordsWithId(questions, 99) = 0
    /\ result.calls = MaxStoreCalls
    /\ TotalUsage(questions) >= 1
    /\ Len(questions) > Len(seed_questions)

\* C26: update_question_performance with a known id increases that
\* question's usage_count by exactly 1, appends exactly one record carrying
\* the given score to the end of its performance_history without changing
\* earlier records, sets avg_score to the mean of all scores in the history,
\* and leaves every other question record unchanged
C26_KnownIdUpdatesOneRecord ==
    [][(UpdateCalled /\ RecordsWithId(questions, result'.question_id) >= 1)
         => LET k == FirstWithId(questions, result'.question_id)
                old == questions[k]
                new == questions'[k]
                history == new.performance_history
            IN  /\ Len(questions') = Len(questions)
                /\ new.id = old.id
                /\ new.usage_count = old.usage_count + 1
                /\ Len(history) = Len(old.performance_history) + 1
                /\ SubSeq(history, 1, Len(history) - 1) = old.performance_history
                /\ history[Len(history)].score = result'.score
                /\ new.avg_score = Rat(SumScores(history), Len(history))
                /\ \A j \in 1..Len(questions) :
                       j # k => questions'[j] = questions[j]]_vars

\* the third update of question 1, with scores 40, 100, 100: mean 80
C26_Witness ==
    /\ result.op = "update_question_performance"
    /\ result.question_id = 1
    /\ result.score = 100
    /\ \E k \in 1..Len(questions) :
          /\ questions[k].id = 1
          /\ questions[k].usage_count = 3
          /\ questions[k].performance_history[1].score = 40
          /\ questions[k].avg_score = RInt(80)

\* C29: after any sequence of store_question, update_question_performance
\* and delete_question calls in which no write fails, the persisted snapshot
\* equals the in-memory question set: a new store constructed from the
\* snapshot holds records with the same ids, statistics and histories in
\* the same order
C29_SnapshotEqualsMemory ==
    LoadQuestions(storage_file) = questions

\* a store constructed from the file after a question was stored, one was
\* deleted and one was updated
C29_Witness ==
    /\ result.op = "load_questions"
    /\ result.calls = MaxStoreCalls
    /\ RecordsWithId(questions, 1) = 0
    /\ Len(questions) = Len(seed_questions)
    /\ TotalUsage(questions) = 1
    /\ questions # seed_questions

(***************************************************************************)
(* Claims about the effectiveness score (SpecEff)                          *)
(***************************************************************************)
EffectivenessComputed == result.op = "_calculate_effectiveness"

\* C27: the effectiveness_score computed by update_question_performance lies
\* in [0,1] for every combination of usage_count, avg_score and success_rate,
\* and equals exactly 0.5 whenever usage_count is below 3
C27_EffectivenessInUnitInterval ==
    EffectivenessComputed
        => /\ RLeq(RInt(0), result.effectiveness_score)
           /\ RLeq(result.effectiveness_score, RInt(1))
           /\ result.question.usage_count < 3
                 => result.effectiveness_score = Rat(1, 2)

\* a question used 50 times with average 0 and success rate 1: the weighted
\* sum is above 1 and the score is 1
C27_Witness ==
    /\ EffectivenessComputed
    /\ result.question.usage_count = 50
    /\ result.question.avg_score = RInt(0)
    /\ result.question.success_rate = RInt(1)
    /\ result.effectiveness_score = RInt(1)

\* the discrimination term |avg_score - 70| / 30 clamped to [0,1]
ClampedDiscrimination(avg_score) ==
    RMin(RMax(RDiv(RAbs(RSub(avg_score, RInt(70))), RInt(30)), RInt(0)), RInt(1))

\* 0.4 x D + 0.3 x min(usage_count/50, 1) + 0.3 x success_rate, clamped
ClaimedEffectiveness(question) ==
    RMin(RMax(RAdd(RAdd(RMul(Rat(4, 10), ClampedDiscrimination(question.avg_score)),
                        RMul(Rat(3, 10), RMin(Rat(question.usage_count, 50), RInt(1)))),
                   RMul(Rat(3, 10), question.success_rate)),
              RInt(0)),
         RInt(1))

\* C28: for usage_count >= 3 the effectiveness score equals
\* 0.4 x D + 0.3 x min(usage_count/50, 1) + 0.3 x success_rate, clamped to
\* [0,1], where D is |avg_score - 70| / 30 itself clamped to [0,1] before
\* weighting, for every avg_score in 0..100
C28_DiscriminationClamped ==
    (EffectivenessComputed /\ result.question.usage_count >= 3)
        => result.effectiveness_score = ClaimedEffectiveness(result.question)

(***************************************************************************)
(* Claims about get_questions_by_criteria (SpecCriteria)                   *)
(***************************************************************************)
Queried == result.op = "get_questions_by_criteria"

\* the stored question satisfies every supplied predicate of the query
Satisfies(q) ==
    /\ result.category # <<>> => q.category = result.category[1]
    /\ result.difficulty # <<>> => q.difficulty = result.difficulty[1]
    /\ result.role # <<>> => result.role[1] \in q.target_roles
    /\ RLeq(result.min_effectiveness, q.effectiveness_score)

\* the indices of the stored questions that satisfy the query
Matching == {i \in 1..Len(questions) : Satisfies(questions[i])}

\* the returned list holds stored questions that satisfy the query, each at
\* most as often as the store holds it, and all of them when no count cuts
\* the list
ReturnsTheMatching ==
    LET returned == result.returned
    IN  /\ \A k \in 1..Len(returned) :
              \E i \in Matching : questions[i] = returned[k]
        /\ \A i \in Matching :
              Cardinality({k \in 1..Len(returned) : returned[k] = questions[i]})
                  <= Cardinality({j \in Matching : questions[j] = questions[i]})
        /\ (result.count = <<>> \/ Cardinality(Matching) <= result.count[1])
              => Len(returned) = Cardinality(Matching)

\* non-increasing effectiveness_score order
NonIncreasing ==
    \A k \in 1..(Len(result.returned) - 1) :
        RLeq(result.returned[k + 1].effectiveness_score,
             result.returned[k].effectiveness_score)

\* C30: get_questions_by_criteria returns exactly the stored questions that
\* satisfy every supplied predicate (category, difficulty, role,
\* min_effectiveness), in non-increasing effectiveness_score order, and
\* whenever a count is given the result has at most count elements (for
\* every count >= 0); when nothing matches it returns an empty list
C30_CriteriaResult ==
    Queried
        => /\ ReturnsTheMatching
           /\ NonIncreasing
           /\ result.count # <<>> => Len(result.returned) <= result.count[1]
           /\ Matching = {} => result.returned = <<>>

(***************************************************************************)
(* Claims about get_best_questions (SpecBest)                              *)
(***************************************************************************)
BestQueried == result.op = "get_best_questions"

\* the indices of the stored questions that list the role of the query
RoleEligible == {i \in 1..Len(questions) : result.role \in questions[i].target_roles}

\* C31: get_best_questions(role, count) returns at most count questions,
\* every one of them a role-eligible stored question, no stored record more
\* than once, and exactly count questions whenever the store holds at least
\* count role-eligible questions
C31_BestQuestions ==
    BestQueried
        => LET returned == result.returned
           IN  /\ Len(returned) <= result.count
               /\ \A k \in 1..Len(returned) :
                     \E i \in RoleEligible : questions[i] = returned[k]
               /\ \A k1, k2 \in 1..Len(returned) :
                     k1 # k2 => returned[k1] # returned[k2]
               /\ Cardinality(RoleEligible) >= result.count
                     => Len(returned) = result.count

\* six finance questions of seven, five from the tiers and one filled in
C31_Witness ==
    /\ BestQueried
    /\ result.role = "finance"
    /\ result.count = 6
    /\ Cardinality(RoleEligible) = 7
    /\ Len(result.returned) = 6
    /\ result.returned[5].difficulty = "advanced"
    /\ result.returned[6].difficulty = "basic"

(***************************************************************************)
(* Claims about generate_interview_questions (SpecGenerate)                *)
(***************************************************************************)
Generated == result.op = "generate_interview_questions"

\* the number of returned questions of a difficulty
ReturnedOf(difficulty) ==
    Cardinality({k \in 1..Len(result.returned) :
                   result.returned[k].difficulty = difficulty})

\* C32: for every count >= 0, generate_interview_questions requests per-tier
\* slot numbers that sum to count, each at least count // 3, with the
\* remainder given to basic first and then intermediate and never to
\* advanced; it returns at most count questions and never more than the
\* requested number for any tier
C32_SlotDistribution ==
    Generated
        => LET requested == result.difficulty_distribution
               third == result.count \div 3
               remainder == result.count % 3
           IN  /\ requested.basic + requested.intermediate + requested.advanced
                     = result.count
               /\ requested.basic = third + (IF remainder >= 1 THEN 1 ELSE 0)
               /\ requested.intermediate = third + (IF remainder = 2 THEN 1 ELSE 0)
               /\ requested.advanced = third
               /\ Len(result.returned) <= result.count
               /\ \A difficulty \in {"basic", "intermediate", "advanced"} :
                     ReturnedOf(difficulty) <= requested[difficulty]
               /\ \A k \in 1..Len(result.returned) :
                     result.returned[k].difficulty
                         \in {"basic", "intermediate", "advanced"}

\* seven questions for data_analytics: three basic slots that no template
\* fills, two intermediate and two advanced questions
C32_Witness ==
    /\ Generated
    /\ result.role = "data_analytics"
    /\ result.count = 7
    /\ result.difficulty_distribution.basic = 3
    /\ Len(result.returned) = 4
    /\ ReturnedOf("advanced") = 2

(***************************************************************************)
(* Claims about the local fallback scorer (SpecEval)                       *)
(***************************************************************************)
\* the answer was scored by _fallback_evaluation
FallbackScored ==
    /\ result.op = "evaluate_comprehensive"
    /\ result.evaluation.evaluation_source = "Fallback"

\* +25 at 30 words, +15 at 15 words, +10 at 5 words and +0 otherwise
ClaimedLengthBonus(words) ==
    IF words >= 30 THEN 25
    ELSE IF words >= 15 THEN 15
    ELSE IF words >= 5 THEN 10
    ELSE 0

\* C33: the local fallback score equals min(100, 40 + length bonus + 20 if
\* any vocabulary function name occurs + 15 if the text contains '=' or
\* '()'), where the length bonus is +25 at 30 words, +15 at 15 words, +10
\* at 5 words and +0 otherwise; the score, technical_accuracy, depth and
\* practical_application all lie in 0..100
C33_FallbackScore ==
    FallbackScored
        => /\ result.evaluation.score =
                 Min(100, 40 + ClaimedLengthBonus(result.response.words)
                             + (IF result.response.has_function THEN 20 ELSE 0)
                             + (IF result.response.has_formula THEN 15 ELSE 0))
           /\ result.evaluation.score \in 0..100
           /\ result.evaluation.technical_accuracy \in 0..100
           /\ result.evaluation.depth \in 0..100
           /\ result.evaluation.practical_application \in 0..100

(***************************************************************************)
(* Claims about the session records (Spec)                                 *)
(***************************************************************************)
\* the list is the old list with one record behind it
OneAppended(old, new) ==
    /\ Len(new) = Len(old) + 1
    /\ SubSeq(new, 1, Len(old)) = old

\* the session holds as many responses as evaluations
SameLengths(interview) ==
    Len(interview.responses) = Len(interview.evaluations)

\* C34: every submit_answer call that passes the session and
\* current-question checks appends exactly one response and exactly one
\* evaluation to the session, both tagged with the id of the question at
\* current_question_index (also when the answer is a reply to a follow-up),
\* so len(responses) = len(evaluations) in every reachable state, and the
\* final report averages over all of them, main and follow-up alike
C34_OneRecordPerAnswer ==
    [][/\ AnswerRecorded
           => LET id == GetCurrentQuestion(Session)[1].id
                  after == SessionAfter
              IN  /\ OneAppended(Session.responses, after.responses)
                  /\ OneAppended(Session.evaluations, after.evaluations)
                  /\ after.responses[Len(after.responses)].question_id = id
                  /\ after.evaluations[Len(after.evaluations)].question_id = id
                  /\ result'.status = "completed"
                        => result'.final_report.overall_score =
                               Round1(Rat(SumScores(after.evaluations),
                                          Len(after.evaluations)))
       /\ current_interview' # <<>> => SameLengths(current_interview'[1])
       /\ \A h \in 1..Len(interview_history') :
             SameLengths(interview_history'[h])]_vars

\* a session of one question completed by the reply to its follow-up: two
\* responses and two evaluations with the id of that question, and a report
\* over both
C34_Witness ==
    /\ result.op = "submit_answer"
    /\ result.status = "completed"
    /\ LET done == interview_history[Len(interview_history)]
       IN  /\ Len(done.questions) = 1
           /\ Len(done.responses) = 2
           /\ Len(done.evaluations) = 2
           /\ done.evaluations[1].score < 60
           /\ done.evaluations[2].question_id = done.questions[1].id
           /\ done.responses[1].question_id = done.questions[1].id
           /\ result.final_report.overall_score =
                  Round1(Rat(done.evaluations[1].score + done.evaluations[2].score, 2))

\* C35: after start_interview returns, no operation (submit_answer,
\* pause_interview, resume_interview, completion) changes the length, the
\* order or the ids of the session's question sequence; follow-up questions
\* are never inserted into it
C35_QuestionSequenceFixed ==
    [][(Active /\ result'.op # "start_interview")
         => /\ current_interview' # <<>>
                 => current_interview'[1].questions = Session.questions
            /\ current_interview' = <<>>
                 => /\ Len(interview_history') = Len(interview_history) + 1
                    /\ interview_history'[Len(interview_history')].questions
                           = Session.questions
            /\ \A h \in 1..Len(interview_history) :
                  interview_history'[h].questions = interview_history[h].questions]_vars

\* a session of two questions after a follow-up and the reply to it: two
\* evaluations, the index at the second question, still two questions
C35_Witness ==
    /\ result.op = "submit_answer"
    /\ result.status = "continue"
    /\ Active
    /\ Len(Session.questions) = 2
    /\ Session.current_question_index = 1
    /\ Len(Session.evaluations) = 2
    /\ Session.questions[1].id # Session.questions[2].id

(***************************************************************************)
(* Claims about the role of the selected questions (SpecSelect)            *)
(***************************************************************************)
\* C36: every question in the question sequence selected by
\* start_interview(role, ...) lists that role among its target_roles, for
\* every role string including roles outside finance, operations and
\* data_analytics
C36_SelectedForRole ==
    [][Started
         => \A k \in 1..Len(StartedQuestions) :
               result'.role \in StartedQuestions[k].target_roles]_vars

\* this step completes the active session
Completes ==
    /\ Active
    /\ result'.op = "submit_answer"
    /\ result'.status = "completed"

\* the interview ids of a history
HistoryIds(history) == {history[h].interview_id : h \in 1..Len(history)}

\* C37: interview_history contains exactly the sessions that reached
\* completion, each once and in completion order; a session that is still
\* active when start_interview is called again is replaced by the new
\* session and never appears in the history, so at most one session is
\* active at any time
C37_HistoryIsTheCompleted ==
    [][/\ Completes
           => /\ Len(interview_history') = Len(interview_history) + 1
              /\ SubSeq(interview_history', 1, Len(interview_history))
                     = interview_history
              /\ interview_history'[Len(interview_history')].interview_id
                     = Session.interview_id
              /\ interview_history'[Len(interview_history')].status = "completed"
              /\ current_interview' = <<>>
       /\ ~Completes => interview_history' = interview_history
       /\ (Active /\ Started)
           => /\ Len(current_interview') = 1
              /\ current_interview'[1].interview_id # Session.interview_id
              /\ Session.interview_id \notin HistoryIds(interview_history')
       /\ Len(current_interview') <= 1
       /\ \A h1, h2 \in 1..Len(interview_history') :
             h1 < h2 => interview_history'[h1].interview_id
                            < interview_history'[h2].interview_id
       /\ current_interview' # <<>>
           => \A h \in 1..Len(interview_history') :
                 interview_history'[h].interview_id
                     < current_interview'[1].interview_id]_vars

\* the first session was answered once and then replaced by the second,
\* which completed: the history holds the second session only
C37_Witness ==
    /\ interviews_started = 2
    /\ current_interview = <<>>
    /\ Len(interview_history) = 1
    /\ interview_history[1].interview_id = 2
    /\ interview_history[1].status = "completed"
    /\ Len(interview_history[1].evaluations) = 1
    /\ TotalUsage(questions) = 2

\* C38: submit_answer does not depend on the session status: on a paused
\* session it evaluates the answer, records it and advances or completes
\* exactly as on an in_progress session, and when it does not complete the
\* session the status stays 'paused'
C38_SubmitIgnoresStatus ==
    [][AnswerRecorded
         => LET after == SessionAfter
                follow_up == RecordedScore < 60 /\ ~Session.has_asked_follow_up
                last == Session.current_question_index + 1
                           >= Len(Session.questions)
            IN  /\ after.interview_id = Session.interview_id
                /\ OneAppended(Session.responses, after.responses)
                /\ OneAppended(Session.evaluations, after.evaluations)
                /\ follow_up
                      => /\ SameSession
                         /\ after.current_question_index
                                = Session.current_question_index
                         /\ after.has_asked_follow_up
                         /\ after.status = Session.status
                /\ ~follow_up
                      => /\ after.current_question_index
                                = Session.current_question_index + 1
                         /\ ~after.has_asked_follow_up
                         /\ last => /\ current_interview' = <<>>
                                     /\ after.status = "completed"
                                     /\ result'.status = "completed"
                         /\ ~last => /\ SameSession
                                      /\ after.status = Session.status
                                      /\ result'.status = "continue"]_vars

\* an answer to the first of two questions of a paused session: recorded,
\* the index moved on, the status still paused
C38_Witness ==
    /\ result.op = "submit_answer"
    /\ result.status = "continue"
    /\ Active
    /\ Session.status = "paused"
    /\ Session.current_question_index = 1
    /\ Len(Session.evaluations) = 1

(***************************************************************************)
(* Claims about the number of evaluations (SpecSession)                    *)
(***************************************************************************)
\* the number of evaluations the questions before the k-th have, when the
\* j-th question has runs[j]
RECURSIVE EvaluationsBefore(_, _)
EvaluationsBefore(runs, k) ==
    IF k <= 1 THEN 0 ELSE EvaluationsBefore(runs, k - 1) + runs[k - 1]

\* the ways to split the evaluations of a session, in order, among its
\* main questions with at most two for each: every question already passed
\* has at least one, the questions not yet reached have none, and each
\* evaluation carries the id of its question
EvaluationRuns(interview) ==
    LET n == Len(interview.questions)
    IN  { runs \in [1..n -> 0..2] :
            /\ EvaluationsBefore(runs, n + 1) = Len(interview.evaluations)
            /\ \A k \in 1..n :
                  /\ k <= interview.current_question_index => runs[k] >= 1
                  /\ k > interview.current_question_index + 1 => runs[k] = 0
                  /\ \A e \in 1..runs[k] :
                        interview.evaluations[EvaluationsBefore(runs, k) + e].question_id
                            = interview.questions[k].id }

\* C39: in every reachable state each main question of a session has
\* received at most two evaluations, and when a session with n questions
\* completes its evaluations list has between n and 2n entries, with
\* exactly n entries when every answer scored at least 60
C39_AtMostTwoEvaluations ==
    /\ Active => EvaluationRuns(Session) # {}
    /\ \A h \in 1..Len(interview_history) :
         LET done == interview_history[h]
             n == Len(done.questions)
         IN  /\ EvaluationRuns(done) # {}
             /\ n <= Len(done.evaluations)
             /\ Len(done.evaluations) <= 2 * n
             /\ (\A e \in 1..Len(done.evaluations) : done.evaluations[e].score >= 60)
                   => Len(done.evaluations) = n

\* a session of two questions completed with four evaluations, two for
\* each question
C39_Witness ==
    /\ result.op = "submit_answer"
    /\ result.status = "completed"
    /\ LET done == interview_history[Len(interview_history)]
       IN  /\ Len(done.questions) = 2
           /\ Len(done.evaluations) = 4
           /\ done.evaluations[2].question_id = done.questions[1].id
           /\ done.evaluations[3].question_id = done.questions[2].id
           /\ done.questions[1].id # done.questions[2].id

(***************************************************************************)
(* Claims about the usage statistics of the store (Spec)                   *)
(***************************************************************************)
\* every record of the store has as many history entries as uses
HistoryMatchesUsage(store) ==
    \A k \in 1..Len(store) :
        Len(store[k].performance_history) = store[k].usage_count

\* C40: for every question record in the store, in every state reachable
\* through start_interview and submit_answer from a freshly seeded store,
\* the length of performance_history equals usage_count, and each
\* submit_answer whose current question id is in the store increases the
\* sum of usage_count over the store by exactly 1 (the seeded store itself
\* holds records with no use and no history; every other state is the end
\* of a step)
C40_UsageCountsAnswers ==
    [][/\ HistoryMatchesUsage(questions')
       /\ (AnswerRecorded
              /\ RecordsWithId(questions, GetCurrentQuestion(Session)[1].id) >= 1)
           => TotalUsage(questions') = TotalUsage(questions) + 1]_vars

\* an answer to a generated question that the store holds twice: the first
\* record took the use, the second did not
C40_Witness ==
    /\ result.op = "submit_answer"
    /\ TotalUsage(questions) = 1
    /\ \E k1, k2 \in 1..Len(questions) :
          /\ k1 < k2
          /\ questions[k1].id = questions[k2].id
          /\ questions[k1].usage_count = 1
          /\ Len(questions[k1].performance_history) = 1
          /\ questions[k2].usage_count = 0
          /\ questions[k2].performance_history = <<>>
====
